---- MODULE Spec2Model ----
(***************************************************************************)
(* RLNC with homomorphic vector commitments (rlnc_poc).                    *)
(*                                                                         *)
(* Scaling.  The Ristretto scalar field has prime order                    *)
(* l = 2^252 + 27742317777372353535851937790883648493 and the group of     *)
(* points is cyclic of the same order.  Values of that size are not        *)
(* representable, so every width is scaled down together:                  *)
(*     byte        8 bits  ->  ByteBits  = 2 bits (values 0..3)            *)
(*     word       32 bytes ->  WordBytes = 2 bytes (4 bits)                *)
(*     stripped    4 bits  ->  HighBits  = 1 bit                           *)
(*     data bits  252      ->  3                                           *)
(*     l = 2^252 + c       ->  P = 2^3 + 3 = 11                            *)
(*     super-block 63 words (2*32-1) -> SuperBlockWords = 3 (2*2-1)        *)
(* Sequences are 1-based here; Rust indices are 0-based.                   *)
(***************************************************************************)
EXTENDS Integers, Sequences, FiniteSets, TLC

VARIABLES
    ech,         \* SpecEch: the Eschelon under test
    generators,  \* Committer.generators, shared by every node
    blocks,      \* the block each source node was built from
    nodes,       \* the Node objects: chunks, commitments, echelon
    msg,         \* the last Message returned by send, or NoMsg
    ret,         \* the last call and what it returned
    net          \* the simulator's Network besides its Nodes, or NoNet

vars == <<ech, generators, blocks, nodes, msg, ret, net>>

----------------------------------------------------------------------------
(* Bounds of the model.                                                    *)

\* largest entry of a row offered to Eschelon::add_row in SpecEch
RowMax == 1

\* largest random u8 coefficient drawn by generate_random_coeffs
U8Max == 1

\* most scalars handed to scalars_to_chunk in SpecUnpack: two groups and one
MaxScalars == 9

\* most generators of a Committer in SpecCommit
MaxGenerators == 2

\* largest scalar of a vector handed to Committer::commit in SpecCommit
ScalarMax == 2

----------------------------------------------------------------------------
(* Scalar field and group (curve25519_dalek::Scalar, RistrettoPoint).      *)

\* order of the scalar field and of the group
P == 11

Scalars == 0..(P - 1)

ZERO == 0

ONE == 1

Add(a, b) == (a + b) % P

Sub(a, b) == (a + P - b) % P

Mul(a, b) == (a * b) % P

RECURSIVE Pow(_, _)
Pow(a, n) == IF n = 0 THEN 1 ELSE Mul(a, Pow(a, n - 1))

\* Scalar::invert: a^(l-2); the inverse of zero is zero
Invert(a) == Pow(a, P - 2)

Min(a, b) == IF a < b THEN a ELSE b

\* Iterator::sum over the scalars of a sequence
RECURSIVE SumSeq(_)
SumSeq(s) == IF s = <<>> THEN ZERO ELSE Add(Head(s), SumSeq(Tail(s)))

AllZero(row) == \A x \in 1..Len(row) : row[x] = ZERO

----------------------------------------------------------------------------
(* matrix.rs: Eschelon                                                     *)

IdentityRow(size, i) == [j \in 1..size |-> IF j = i THEN ONE ELSE ZERO]

IdentityMatrix(size) == [i \in 1..size |-> IdentityRow(size, i)]

\* Eschelon::new with a transform of zero rows
EschelonNewZeroTransform(size) ==
    [coefficients |-> <<>>, eschelon |-> <<>>,
     transform |-> [i \in 1..size |-> [j \in 1..size |-> ZERO]]]

\* Eschelon::new
EschelonNew(size) ==
    [coefficients |-> <<>>, eschelon |-> <<>>, transform |-> IdentityMatrix(size)]

\* Eschelon::new_identity
EschelonNewIdentity(size) ==
    [coefficients |-> IdentityMatrix(size),
     eschelon     |-> IdentityMatrix(size),
     transform    |-> IdentityMatrix(size)]

\* first_entry: position of the first nonzero entry, 0 for None
first_entry(slice) ==
    IF AllZero(slice) THEN 0
    ELSE CHOOSE k \in 1..Len(slice) :
            slice[k] # ZERO /\ \A m \in 1..(k - 1) : slice[m] = ZERO

\* Reduce without the scaling by the pivot: *x = *x - y * f
ReduceUnscaled(x, y, pivot, f) ==
    [m \in 1..Len(x) |->
        IF m <= Len(y) THEN Sub(x[m], Mul(y[m], f)) ELSE x[m]]

\* x.iter_mut().zip(y.iter()).for_each(|(x, y)| *x = pivot * (*x) - y * f)
\* zip stops at the shorter of the two rows
Reduce(x, y, pivot, f) ==
    [m \in 1..Len(x) |->
        IF m <= Len(y) THEN Sub(Mul(pivot, x[m]), Mul(y[m], f)) ELSE x[m]]

\* insert that pushes x at the end whatever i is
InsertAtEnd(s, i, x) == Append(s, x)

\* Vec::insert(i, x) with 0-based i
InsertAt(s, i, x) == SubSeq(s, 1, i) \o <<x>> \o SubSeq(s, i + 1, Len(s))

\* RemoveAt taking out the first row whatever i is
RemoveFirst(s, i) == Tail(s)

\* Vec::remove(i) with 0-based i
RemoveAt(s, i) == SubSeq(s, 1, i) \o SubSeq(s, i + 2, Len(s))

\* the while loop of add_row without the elimination step: a row whose first
\* entry is in the column of the new row's is passed over
RECURSIVE WalkNoElimination(_, _, _, _)
WalkNoElimination(e, i, w, tr) ==
    IF i >= Len(e.coefficients) THEN [out |-> "done", i |-> i, w |-> w, tr |-> tr]
    ELSE LET j == first_entry(e.eschelon[i + 1])
             k == first_entry(w)
         IN  IF j = 0 THEN [out |-> "panic", i |-> i, w |-> w, tr |-> tr]
             ELSE IF k = 0 THEN [out |-> "dependent", i |-> i, w |-> w, tr |-> tr]
             ELSE IF j <= k THEN WalkNoElimination(e, i + 1, w, tr)
             ELSE [out |-> "done", i |-> i, w |-> w, tr |-> tr]

\* the while loop of add_row; i is the 0-based loop index.
\* out: "dependent" (return false inside the loop), "panic" (unwrap of None
\* or index out of range), "done" (loop left by the condition or by break)
RECURSIVE Walk(_, _, _, _)
Walk(e, i, w, tr) ==
    IF i >= Len(e.coefficients) THEN [out |-> "done", i |-> i, w |-> w, tr |-> tr]
    ELSE LET j == first_entry(e.eschelon[i + 1])
             k == first_entry(w)
         IN  IF j = 0 THEN [out |-> "panic", i |-> i, w |-> w, tr |-> tr]
             ELSE IF k = 0 THEN [out |-> "dependent", i |-> i, w |-> w, tr |-> tr]
             ELSE IF j < k THEN Walk(e, i + 1, w, tr)
             ELSE IF j > k THEN [out |-> "done", i |-> i, w |-> w, tr |-> tr]
             ELSE LET pivot == e.eschelon[i + 1][j]
                      f     == w[j]
                  IN  Walk(e, i + 1,
                           Reduce(w, e.eschelon[i + 1], pivot, f),
                           Reduce(tr, e.transform[i + 1], pivot, f))

\* add_row without the test of the reduced row after the loop
add_row_unchecked(e, row) ==
    LET current_size == Len(e.coefficients)
        rejected == [ok |-> FALSE, panic |-> FALSE, e |-> e]
    IN  IF AllZero(row) THEN rejected
        ELSE IF current_size = Len(row) THEN rejected
        ELSE IF current_size = 0 THEN
            [ok |-> TRUE, panic |-> FALSE,
             e  |-> [e EXCEPT !.eschelon = Append(@, row),
                              !.coefficients = Append(@, row)]]
        ELSE
            LET r == Walk(e, 0, row, e.transform[current_size + 1])
            IN  IF r.out = "panic" THEN [ok |-> FALSE, panic |-> TRUE, e |-> e]
                ELSE IF r.out = "dependent" THEN rejected
                ELSE [ok |-> TRUE, panic |-> FALSE,
                      e  |-> [coefficients |-> Append(e.coefficients, row),
                              eschelon     |-> InsertAt(e.eschelon, r.i, r.w),
                              transform    |->
                                 IF r.i < current_size
                                 THEN InsertAt(RemoveAt(e.transform, current_size),
                                               r.i, r.tr)
                                 ELSE [e.transform EXCEPT ![r.i + 1] = r.tr]]]

\* add_row pushing the reduced row onto coefficients
add_row_stores_reduced(e, row) ==
    LET current_size == Len(e.coefficients)
        rejected == [ok |-> FALSE, panic |-> FALSE, e |-> e]
    IN  IF AllZero(row) THEN rejected
        ELSE IF current_size = Len(row) THEN rejected
        ELSE IF current_size = 0 THEN
            [ok |-> TRUE, panic |-> FALSE,
             e  |-> [e EXCEPT !.eschelon = Append(@, row),
                              !.coefficients = Append(@, row)]]
        ELSE IF current_size >= Len(e.transform) THEN
            [ok |-> FALSE, panic |-> TRUE, e |-> e]
        ELSE
            LET r == Walk(e, 0, row, e.transform[current_size + 1])
            IN  IF r.out = "panic" THEN [ok |-> FALSE, panic |-> TRUE, e |-> e]
                ELSE IF r.out = "dependent" THEN rejected
                ELSE IF AllZero(r.w) THEN rejected
                ELSE [ok |-> TRUE, panic |-> FALSE,
                      e  |-> [coefficients |-> Append(e.coefficients, r.w),
                              eschelon     |-> InsertAt(e.eschelon, r.i, r.w),
                              transform    |->
                                 IF r.i < current_size
                                 THEN InsertAt(RemoveAt(e.transform, current_size),
                                               r.i, r.tr)
                                 ELSE [e.transform EXCEPT ![r.i + 1] = r.tr]]]

\* add_row without the test current_size == row.len()
add_row_no_capacity(e, row) ==
    LET current_size == Len(e.coefficients)
        rejected == [ok |-> FALSE, panic |-> FALSE, e |-> e]
    IN  IF AllZero(row) THEN rejected
        ELSE IF current_size = 0 THEN
            [ok |-> TRUE, panic |-> FALSE,
             e  |-> [e EXCEPT !.eschelon = Append(@, row),
                              !.coefficients = Append(@, row)]]
        ELSE IF current_size >= Len(e.transform) THEN
            [ok |-> FALSE, panic |-> TRUE, e |-> e]
        ELSE
            LET r == Walk(e, 0, row, e.transform[current_size + 1])
            IN  IF r.out = "panic" THEN [ok |-> FALSE, panic |-> TRUE, e |-> e]
                ELSE IF r.out = "dependent" THEN rejected
                ELSE IF AllZero(r.w) THEN rejected
                ELSE [ok |-> TRUE, panic |-> FALSE,
                      e  |-> [coefficients |-> Append(e.coefficients, row),
                              eschelon     |-> InsertAt(e.eschelon, r.i, r.w),
                              transform    |->
                                 IF r.i < current_size
                                 THEN InsertAt(RemoveAt(e.transform, current_size),
                                               r.i, r.tr)
                                 ELSE [e.transform EXCEPT ![r.i + 1] = r.tr]]]

\* Eschelon::add_row: [ok: the bool returned, panic, e: the Eschelon afterwards]
add_row(e, row) ==
    LET current_size == Len(e.coefficients)
        rejected == [ok |-> FALSE, panic |-> FALSE, e |-> e]
    IN  IF AllZero(row) THEN rejected
        ELSE IF current_size = Len(row) THEN rejected
        ELSE IF current_size = 0 THEN
            [ok |-> TRUE, panic |-> FALSE,
             e  |-> [e EXCEPT !.eschelon = Append(@, row),
                              !.coefficients = Append(@, row)]]
        ELSE IF current_size >= Len(e.transform) THEN
            [ok |-> FALSE, panic |-> TRUE, e |-> e]
        ELSE
            LET r == Walk(e, 0, row, e.transform[current_size + 1])
            IN  IF r.out = "panic" THEN [ok |-> FALSE, panic |-> TRUE, e |-> e]
                ELSE IF r.out = "dependent" THEN rejected
                ELSE IF AllZero(r.w) THEN rejected
                ELSE [ok |-> TRUE, panic |-> FALSE,
                      e  |-> [coefficients |-> Append(e.coefficients, row),
                              eschelon     |-> InsertAt(e.eschelon, r.i, r.w),
                              transform    |->
                                 IF r.i < current_size
                                 THEN InsertAt(RemoveAt(e.transform, current_size),
                                               r.i, r.tr)
                                 ELSE [e.transform EXCEPT ![r.i + 1] = r.tr]]]

\* is_full comparing the row count with the row length less one
is_full_early(e) ==
    IF Len(e.coefficients) = 0 THEN "panic"
    ELSE IF Len(e.coefficients) + 1 >= Len(e.coefficients[1]) THEN "true"
    ELSE "false"

\* Eschelon::is_full: coefficients[0] panics on an empty Vec
is_full(e) ==
    IF Len(e.coefficients) = 0 THEN "panic"
    ELSE IF Len(e.coefficients) = Len(e.coefficients[1]) THEN "true"
    ELSE "false"

\* compound_scalars combining the rows of the echelon form
compound_scalars_eschelon(e, scalars) ==
    [j \in 1..Len(e.transform) |->
        SumSeq([x \in 1..Min(Len(scalars), Len(e.eschelon)) |->
                   Mul(scalars[x], e.eschelon[x][j])])]

\* compound_scalars with one entry per accepted row instead of one per column
compound_scalars_per_row(e, scalars) ==
    [j \in 1..Len(e.coefficients) |->
        SumSeq([x \in 1..Min(Len(scalars), Len(e.coefficients)) |->
                   Mul(scalars[x], e.coefficients[x][j])])]

\* Eschelon::compound_scalars
compound_scalars(e, scalars) ==
    [j \in 1..Len(e.transform) |->
        SumSeq([x \in 1..Min(Len(scalars), Len(e.coefficients)) |->
                   Mul(scalars[x], e.coefficients[x][j])])]

\* compound_scalars panics on coeffs[j] when a combined row is shorter than
\* transform.len()
compound_scalars_panics(e, scalars) ==
    \E x \in 1..Min(Len(scalars), Len(e.coefficients)) :
        Len(e.coefficients[x]) < Len(e.transform)

\* BackSubst with diff = eschelon[i][j], not scaled by the inverted pivot
RECURSIVE BackSubstUnscaled(_, _, _, _, _)
BackSubstUnscaled(e, inv, i, j, pivot) ==
    IF j > Len(e.eschelon) THEN inv
    ELSE LET diff == e.eschelon[i][j]
             rowi == [k \in 1..Len(inv[i]) |->
                         IF k <= Len(e.eschelon)
                         THEN Sub(inv[i][k], Mul(inv[j][k], diff))
                         ELSE inv[i][k]]
         IN  BackSubstUnscaled(e, [inv EXCEPT ![i] = rowi], i, j + 1, pivot)

\* one pass of the inner loops of inverse() for row i (1-based):
\* inverse[i][k] -= inverse[j][k] * (eschelon[i][j] * pivot), j = i+1..n
RECURSIVE BackSubst(_, _, _, _, _)
BackSubst(e, inv, i, j, pivot) ==
    IF j > Len(e.eschelon) THEN inv
    ELSE LET diff == Mul(e.eschelon[i][j], pivot)
             rowi == [k \in 1..Len(inv[i]) |->
                         IF k <= Len(e.eschelon)
                         THEN Sub(inv[i][k], Mul(inv[j][k], diff))
                         ELSE inv[i][k]]
         IN  BackSubst(e, [inv EXCEPT ![i] = rowi], i, j + 1, pivot)

\* the outer loop of inverse(), i running from n down to 1
RECURSIVE InverseLoop(_, _, _)
InverseLoop(e, inv, i) ==
    IF i = 0 THEN inv
    ELSE LET pivot  == Invert(e.eschelon[i][i])
             scaled == [inv EXCEPT ![i] = [k \in 1..Len(inv[i]) |-> Mul(inv[i][k], pivot)]]
         IN  InverseLoop(e, BackSubst(e, scaled, i, i + 1, pivot), i - 1)

\* Eschelon::inverse: [ok, m]
inverse(e) ==
    IF Len(e.coefficients) = 0 THEN [ok |-> FALSE, m |-> <<>>]
    ELSE IF Len(e.eschelon) # Len(e.coefficients[1]) THEN [ok |-> FALSE, m |-> <<>>]
    ELSE [ok |-> TRUE, m |-> InverseLoop(e, e.transform, Len(e.eschelon))]

----------------------------------------------------------------------------
(* blocks.rs: chunk codec                                                  *)

\* bits per byte (8 in the source)
ByteBits == 2

\* bytes per word (32 in the source)
WordBytes == 2

\* bits stripped from the last byte of each word (4 in the source)
HighBits == 1

\* words per super-block (63 in the source)
SuperBlockWords == 3

ByteMod == 2 ^ ByteBits

Bytes == 0..(ByteMod - 1)

\* x >> n on a byte
Shr(x, n) == x \div (2 ^ n)

\* (x << n) truncated to a byte
Shl(x, n) == (x * (2 ^ n)) % ByteMod

\* x & (2^n - 1)
LowBits(x, n) == x % (2 ^ n)

\* x | y on bytes
RECURSIVE BitOr(_, _)
BitOr(x, y) ==
    IF x = 0 THEN y
    ELSE IF y = 0 THEN x
    ELSE (IF (x % 2) + (y % 2) > 0 THEN 1 ELSE 0) + 2 * BitOr(x \div 2, y \div 2)

\* Scalar::from_bytes_mod_order: little-endian value reduced modulo the order
RECURSIVE LittleEndian(_)
LittleEndian(bytes) ==
    IF bytes = <<>> THEN 0 ELSE Head(bytes) + ByteMod * LittleEndian(Tail(bytes))

from_bytes_mod_order(bytes) == LittleEndian(bytes) % P

\* Scalar::to_bytes: canonical little-endian encoding, WordBytes bytes
to_bytes(scalar) == [k \in 1..WordBytes |-> (scalar \div (ByteMod ^ (k - 1))) % ByteMod]

\* slice.chunks(n): consecutive pieces of n elements, the last one shorter
RECURSIVE Chunks(_, _)
Chunks(s, n) ==
    IF s = <<>> THEN <<>>
    ELSE IF Len(s) <= n THEN <<s>>
    ELSE <<SubSeq(s, 1, n)>> \o Chunks(SubSeq(s, n + 1, Len(s)), n)

\* Iterator::flatten
RECURSIVE Flatten(_)
Flatten(ss) == IF ss = <<>> THEN <<>> ELSE Head(ss) \o Flatten(Tail(ss))

\* word i (0-based) of a super-block
WordOf(x, i) == SubSeq(x, i * WordBytes + 1, (i + 1) * WordBytes)

\* tail_bits after the words 0..n-1 of super-block x have been processed:
\* tail_bits[i >> 1] |= high_bits << (HighBits * (i & 1))
RECURSIVE TailBits(_, _)
TailBits(x, n) ==
    IF n = 0 THEN [k \in 1..WordBytes |-> 0]
    ELSE LET i         == n - 1
             prev      == TailBits(x, i)
             high_bits == Shr(WordOf(x, i)[WordBytes], ByteBits - HighBits)
         IN  [prev EXCEPT ![(i \div 2) + 1] = BitOr(@, Shl(high_bits, HighBits * (i % 2)))]

\* the closure applied to one super-block by chunk_to_scalars
SuperBlockToScalars(x) ==
    LET n == Len(x) \div WordBytes
    IN  [i \in 1..n |->
            LET array == WordOf(x, i - 1)
            IN  from_bytes_mod_order(
                   [array EXCEPT ![WordBytes] = LowBits(@, ByteBits - HighBits)])]
        \o <<from_bytes_mod_order(TailBits(x, n))>>

\* chunk_to_scalars without the test of the length
chunk_to_scalars_unchecked(chunk) ==
    LET sb == Chunks(chunk, SuperBlockWords * WordBytes)
    IN  [ok |-> TRUE,
         v  |-> Flatten([b \in 1..Len(sb) |-> SuperBlockToScalars(sb[b])])]

\* chunk_to_scalars cutting super-blocks one word short
chunk_to_scalars_short_groups(chunk) ==
    IF Len(chunk) % WordBytes # 0 THEN [ok |-> FALSE, v |-> <<>>]
    ELSE LET sb == Chunks(chunk, (SuperBlockWords - 1) * WordBytes)
         IN  [ok |-> TRUE,
              v  |-> Flatten([b \in 1..Len(sb) |-> SuperBlockToScalars(sb[b])])]

\* chunk_to_scalars
chunk_to_scalars(chunk) ==
    IF Len(chunk) % WordBytes # 0 THEN [ok |-> FALSE, v |-> <<>>]
    ELSE LET sb == Chunks(chunk, SuperBlockWords * WordBytes)
         IN  [ok |-> TRUE,
              v  |-> Flatten([b \in 1..Len(sb) |-> SuperBlockToScalars(sb[b])])]

\* ScalarGroupToBytes that does not restore the stripped high bits
ScalarGroupToBytesLow(chunk) ==
    Flatten([n \in 1..(Len(chunk) - 1) |-> to_bytes(chunk[n])])

\* the body of the for loop of scalars_to_chunk for one group of scalars
ScalarGroupToBytes(chunk) ==
    LET tail_bits == to_bytes(chunk[Len(chunk)])
    IN  Flatten([n \in 1..(Len(chunk) - 1) |->
            LET i         == n - 1
                bytes     == to_bytes(chunk[n])
                high_bits == LowBits(Shr(tail_bits[(i \div 2) + 1], HighBits * (i % 2)),
                                     HighBits)
            IN  [bytes EXCEPT ![WordBytes] = BitOr(@, Shl(high_bits, ByteBits - HighBits))]])

\* scalars_to_chunk with groups one scalar short
scalars_to_chunk_short_groups(scalars) ==
    IF scalars = <<>> THEN [ok |-> TRUE, v |-> <<>>]
    ELSE LET groups == Chunks(scalars, SuperBlockWords)
         IN  IF \E g \in 1..Len(groups) : Len(groups[g]) <= 1
             THEN [ok |-> FALSE, v |-> <<>>]
             ELSE [ok |-> TRUE,
                   v  |-> Flatten([g \in 1..Len(groups) |-> ScalarGroupToBytes(groups[g])])]

\* scalars_to_chunk that accepts a group of a single scalar
scalars_to_chunk_lenient(scalars) ==
    IF scalars = <<>> THEN [ok |-> TRUE, v |-> <<>>]
    ELSE LET groups == Chunks(scalars, SuperBlockWords + 1)
         IN  [ok |-> TRUE,
              v  |-> Flatten([g \in 1..Len(groups) |-> ScalarGroupToBytes(groups[g])])]

\* scalars_to_chunk
scalars_to_chunk(scalars) ==
    IF scalars = <<>> THEN [ok |-> TRUE, v |-> <<>>]
    ELSE LET groups == Chunks(scalars, SuperBlockWords + 1)
         IN  IF \E g \in 1..Len(groups) : Len(groups[g]) <= 1
             THEN [ok |-> FALSE, v |-> <<>>]
             ELSE [ok |-> TRUE,
                   v  |-> Flatten([g \in 1..Len(groups) |-> ScalarGroupToBytes(groups[g])])]

\* chunk_to_scalars_31: words of WordBytes - 1 bytes (31 in the source),
\* each extended by a zero byte
chunk_to_scalars_31(chunk) ==
    IF Len(chunk) % (WordBytes - 1) # 0 THEN [ok |-> FALSE, v |-> <<>>]
    ELSE [ok |-> TRUE,
          v  |-> [i \in 1..(Len(chunk) \div (WordBytes - 1)) |->
                     from_bytes_mod_order(
                        SubSeq(chunk, (i - 1) * (WordBytes - 1) + 1, i * (WordBytes - 1))
                        \o <<0>>)]]

\* scalars_to_chunk_31: the first WordBytes - 1 bytes of every scalar
scalars_to_chunk_31(scalars) ==
    Flatten([i \in 1..Len(scalars) |-> SubSeq(to_bytes(scalars[i]), 1, WordBytes - 1)])

\* block_to_chunks: out is "Ok", "Err" or "panic" (division by zero, chunks(0))
block_to_chunks(block, num_chunks) ==
    IF num_chunks = 0 THEN [out |-> "panic", v |-> <<>>]
    ELSE IF Len(block) % num_chunks # 0 THEN [out |-> "Err", v |-> <<>>]
    ELSE IF Len(block) \div num_chunks = 0 THEN [out |-> "panic", v |-> <<>>]
    ELSE [out |-> "Ok", v |-> Chunks(block, Len(block) \div num_chunks)]

----------------------------------------------------------------------------
(* blocks.rs: Committer.  A point is written as its discrete logarithm to  *)
(* the base point, so the group is Z_P under addition.                     *)

\* multiscalar_mul shifted by the base point
multiscalar_mul_affine(scalars, points) ==
    Add(SumSeq([i \in 1..Len(scalars) |-> Mul(scalars[i], points[i])]), ONE)

\* RistrettoPoint::multiscalar_mul on sequences of equal length
multiscalar_mul(scalars, points) ==
    SumSeq([i \in 1..Len(scalars) |-> Mul(scalars[i], points[i])])

\* commit refusing an input as long as the generator vector
commit_strict(gens, scalars) ==
    IF Len(scalars) >= Len(gens) THEN [ok |-> FALSE, v |-> 0]
    ELSE [ok |-> TRUE, v |-> multiscalar_mul(scalars, SubSeq(gens, 1, Len(scalars)))]

\* Committer::commit
commit(gens, scalars) ==
    IF Len(scalars) > Len(gens) THEN [ok |-> FALSE, v |-> 0]
    ELSE [ok |-> TRUE, v |-> multiscalar_mul(scalars, SubSeq(gens, 1, Len(scalars)))]

----------------------------------------------------------------------------
(* node.rs: Message and Node                                               *)

NoMsg == [data |-> <<>>, coefficients |-> <<>>, commitments |-> <<>>]

\* Message::verify: "Ok", "Err", or "panic" (multiscalar_mul asserts that
\* both of its inputs have the same length)
verify(m, gens) ==
    IF Len(m.coefficients) # Len(m.commitments) THEN "panic"
    ELSE LET msm        == multiscalar_mul(m.coefficients, m.commitments)
             commitment == commit(gens, m.data)
         IN  IF ~commitment.ok THEN "Err"
             ELSE IF msm # commitment.v THEN "Err"
             ELSE "Ok"

\* Node::new
NodeNew(num_chunks) ==
    [chunks |-> <<>>, commitments |-> <<>>, echelon |-> EschelonNew(num_chunks)]

\* Node::new_source: out is "Ok", "Err" or "panic" (the two unwrap calls)
new_source(gens, block, num_chunks) ==
    LET bc == block_to_chunks(block, num_chunks)
    IN  IF bc.out # "Ok" THEN [out |-> bc.out, node |-> NodeNew(num_chunks)]
        ELSE IF \E c \in 1..Len(bc.v) : ~chunk_to_scalars(bc.v[c]).ok
             THEN [out |-> "panic", node |-> NodeNew(num_chunks)]
        ELSE LET chunks == [c \in 1..Len(bc.v) |-> chunk_to_scalars(bc.v[c]).v]
             IN  IF \E c \in 1..Len(chunks) : ~commit(gens, chunks[c]).ok
                 THEN [out |-> "panic", node |-> NodeNew(num_chunks)]
                 ELSE [out  |-> "Ok",
                       node |-> [chunks      |-> chunks,
                                 commitments |-> [c \in 1..Len(chunks) |->
                                                     commit(gens, chunks[c]).v],
                                 echelon     |-> EschelonNewIdentity(num_chunks)]]

\* check_existing_commitments comparing the lengths only
check_existing_commitments_length_only(node, commitments) ==
    IF node.commitments # <<>>
    THEN Len(node.commitments) = Len(commitments)
    ELSE TRUE

\* Node::check_existing_commitments
check_existing_commitments(node, commitments) ==
    IF node.commitments # <<>>
    THEN IF Len(node.commitments) # Len(commitments) THEN FALSE
         ELSE IF node.commitments # commitments THEN FALSE
         ELSE TRUE
    ELSE TRUE

\* Node::check_existing_chunks
check_existing_chunks(node, m) ==
    IF node.chunks # <<>>
    THEN Len(node.chunks[1]) = Len(m.data)
    ELSE TRUE

\* receive that never stores the commitments of the message
receive_never_pins(node, m, gens) ==
    IF ~check_existing_commitments(node, m.commitments)
    THEN [result |-> "ExistingCommitmentsMismatch", node |-> node]
    ELSE IF ~check_existing_chunks(node, m)
    THEN [result |-> "ExistingChunksMismatch", node |-> node]
    ELSE IF verify(m, gens) = "panic"
    THEN [result |-> "panic", node |-> node]
    ELSE IF verify(m, gens) = "Err"
    THEN [result |-> "InvalidMessage", node |-> node]
    ELSE LET ar == add_row(node.echelon, m.coefficients)
         IN  IF ar.panic THEN [result |-> "panic", node |-> node]
             ELSE IF ~ar.ok THEN [result |-> "LinearlyDependentChunk", node |-> node]
             ELSE [result |-> "Ok",
                   node   |-> [chunks      |-> Append(node.chunks, m.data),
                               commitments |-> node.commitments,
                               echelon     |-> ar.e]]

\* receive that stores the commitments only once a chunk is already held
receive_pins_late(node, m, gens) ==
    IF ~check_existing_commitments(node, m.commitments)
    THEN [result |-> "ExistingCommitmentsMismatch", node |-> node]
    ELSE IF ~check_existing_chunks(node, m)
    THEN [result |-> "ExistingChunksMismatch", node |-> node]
    ELSE IF verify(m, gens) = "panic"
    THEN [result |-> "panic", node |-> node]
    ELSE IF verify(m, gens) = "Err"
    THEN [result |-> "InvalidMessage", node |-> node]
    ELSE LET ar == add_row(node.echelon, m.coefficients)
         IN  IF ar.panic THEN [result |-> "panic", node |-> node]
             ELSE IF ~ar.ok THEN [result |-> "LinearlyDependentChunk", node |-> node]
             ELSE [result |-> "Ok",
                   node   |-> [chunks      |-> Append(node.chunks, m.data),
                               commitments |-> IF node.commitments = <<>>
                                                  /\ node.chunks # <<>>
                                               THEN m.commitments
                                               ELSE node.commitments,
                               echelon     |-> ar.e]]

\* receive that verifies the message before it compares the data length
receive_verify_first(node, m, gens) ==
    IF ~check_existing_commitments(node, m.commitments)
    THEN [result |-> "ExistingCommitmentsMismatch", node |-> node]
    ELSE IF verify(m, gens) = "panic"
    THEN [result |-> "panic", node |-> node]
    ELSE IF verify(m, gens) = "Err"
    THEN [result |-> "InvalidMessage", node |-> node]
    ELSE IF ~check_existing_chunks(node, m)
    THEN [result |-> "ExistingChunksMismatch", node |-> node]
    ELSE LET ar == add_row(node.echelon, m.coefficients)
         IN  IF ar.panic THEN [result |-> "panic", node |-> node]
             ELSE IF ~ar.ok THEN [result |-> "LinearlyDependentChunk", node |-> node]
             ELSE [result |-> "Ok",
                   node   |-> [chunks      |-> Append(node.chunks, m.data),
                               commitments |-> IF node.commitments = <<>>
                                               THEN m.commitments
                                               ELSE node.commitments,
                               echelon     |-> ar.e]]

\* receive that adopts the commitments of the message before it verifies it
receive_adopt_first(node, m, gens) ==
    LET adopted == [node EXCEPT !.commitments = IF @ = <<>> THEN m.commitments ELSE @]
    IN  IF ~check_existing_commitments(node, m.commitments)
        THEN [result |-> "ExistingCommitmentsMismatch", node |-> node]
        ELSE IF ~check_existing_chunks(node, m)
        THEN [result |-> "ExistingChunksMismatch", node |-> node]
        ELSE IF verify(m, gens) = "panic"
        THEN [result |-> "panic", node |-> adopted]
        ELSE IF verify(m, gens) = "Err"
        THEN [result |-> "InvalidMessage", node |-> adopted]
        ELSE LET ar == add_row(node.echelon, m.coefficients)
             IN  IF ar.panic THEN [result |-> "panic", node |-> adopted]
                 ELSE IF ~ar.ok
                 THEN [result |-> "LinearlyDependentChunk", node |-> adopted]
                 ELSE [result |-> "Ok",
                       node   |-> [chunks      |-> Append(node.chunks, m.data),
                                   commitments |-> adopted.commitments,
                                   echelon     |-> ar.e]]

\* Node::receive: [result, node]
receive(node, m, gens) ==
    IF ~check_existing_commitments(node, m.commitments)
    THEN [result |-> "ExistingCommitmentsMismatch", node |-> node]
    ELSE IF ~check_existing_chunks(node, m)
    THEN [result |-> "ExistingChunksMismatch", node |-> node]
    ELSE IF verify(m, gens) = "panic"
    THEN [result |-> "panic", node |-> node]
    ELSE IF verify(m, gens) = "Err"
    THEN [result |-> "InvalidMessage", node |-> node]
    ELSE LET ar == add_row(node.echelon, m.coefficients)
         IN  IF ar.panic THEN [result |-> "panic", node |-> node]
             ELSE IF ~ar.ok THEN [result |-> "LinearlyDependentChunk", node |-> node]
             ELSE [result |-> "Ok",
                   node   |-> [chunks      |-> Append(node.chunks, m.data),
                               commitments |-> IF node.commitments = <<>>
                                               THEN m.commitments
                                               ELSE node.commitments,
                               echelon     |-> ar.e]]

\* Node::linear_comb_data
linear_comb_data(node, scalars) ==
    [i \in 1..Len(node.chunks[1]) |->
        SumSeq([x \in 1..Min(Len(scalars), Len(node.chunks)) |->
                   Mul(scalars[x], node.chunks[x][i])])]

\* Node::linear_comb_chunk together with Message::new
linear_comb_chunk(node, scalars) ==
    [data         |-> linear_comb_data(node, scalars),
     coefficients |-> compound_scalars(node.echelon, scalars),
     commitments  |-> node.commitments]

\* generate_random_coeffs that draws zeros only
generate_random_coeffs_zero(length) == {[i \in 1..length |-> 0]}

\* generate_random_coeffs: the vectors of u8 values it can return
generate_random_coeffs(length) == [1..length -> 0..U8Max]

\* Node::send with the drawn scalars; debug tells whether debug_assert! is
\* compiled in.  out is "Ok", "Err" or "panic"
send(node, scalars, gens, debug) ==
    IF node.chunks = <<>> THEN [out |-> "Err", msg |-> NoMsg]
    ELSE IF compound_scalars_panics(node.echelon, scalars)
    THEN [out |-> "panic", msg |-> NoMsg]
    ELSE LET message == linear_comb_chunk(node, scalars)
         IN  IF debug /\ verify(message, gens) # "Ok"
             THEN [out |-> "panic", msg |-> NoMsg]
             ELSE [out |-> "Ok", msg |-> message]

\* Node::decode: out is "Ok", "Err" or "panic" (chunks[j] out of range)
decode(node) ==
    LET inv == inverse(node.echelon)
    IN  IF ~inv.ok THEN [out |-> "Err", v |-> <<>>]
        ELSE IF Len(node.chunks) < Len(inv.m) THEN [out |-> "panic", v |-> <<>>]
        ELSE LET ret_scalars(i) ==
                     [k \in 1..Len(node.chunks[1]) |->
                         SumSeq([j \in 1..Len(inv.m) |->
                                    Mul(inv.m[i][j], node.chunks[j][k])])]
                 parts == [i \in 1..Len(inv.m) |-> scalars_to_chunk(ret_scalars(i))]
             IN  IF \E i \in 1..Len(parts) : ~parts[i].ok
                 THEN [out |-> "Err", v |-> <<>>]
                 ELSE [out |-> "Ok", v |-> Flatten([i \in 1..Len(parts) |-> parts[i].v])]

\* Node::is_full
node_is_full(node) == is_full(node.echelon)

----------------------------------------------------------------------------
(* c_api.rs: the functions exported over the C ABI.  A panic inside one of *)
(* them does not return to the caller: abort is TRUE and no code is given. *)

\* the bytes handed to receive_chunk: valid tells whether bincode::deserialize
\* yields a Message, message is the Message it yields
Wire(valid, m) == [valid |-> valid, message |-> m]

\* the receive errors mapped with the first two codes exchanged
ReceiveErrorCodeSwapped(e) ==
    IF e = "ExistingCommitmentsMismatch" THEN -3
    ELSE IF e = "ExistingChunksMismatch" THEN -2
    ELSE IF e = "InvalidMessage" THEN -4
    ELSE -5

\* the map_err closure of receive_chunk
ReceiveErrorCode(e) ==
    IF e = "ExistingCommitmentsMismatch" THEN -2
    ELSE IF e = "ExistingChunksMismatch" THEN -3
    ELSE IF e = "InvalidMessage" THEN -4
    ELSE -5

\* receive_chunk: [abort, code, node]
receive_chunk(node, wire, gens) ==
    IF ~wire.valid THEN [abort |-> FALSE, code |-> -1, node |-> node]
    ELSE LET r == receive(node, wire.message, gens)
         IN  IF r.result = "panic" THEN [abort |-> TRUE, code |-> 0, node |-> r.node]
             ELSE IF r.result = "Ok" THEN [abort |-> FALSE, code |-> 0, node |-> r.node]
             ELSE [abort |-> FALSE, code |-> ReceiveErrorCode(r.result), node |-> r.node]

\* send_chunk: [abort, code, msg]; a Message always serializes
send_chunk(node, scalars, gens, debug) ==
    LET r == send(node, scalars, gens, debug)
    IN  IF r.out = "panic" THEN [abort |-> TRUE, code |-> 0, msg |-> NoMsg]
        ELSE IF r.out = "Ok" THEN [abort |-> FALSE, code |-> 0, msg |-> r.msg]
        ELSE [abort |-> FALSE, code |-> -1, msg |-> NoMsg]

\* is_full of c_api.rs: [abort, code]
c_is_full(node) ==
    IF node_is_full(node) = "panic" THEN [abort |-> TRUE, code |-> 0]
    ELSE IF node_is_full(node) = "true" THEN [abort |-> FALSE, code |-> 1]
    ELSE [abort |-> FALSE, code |-> 0]

\* decode of c_api.rs: [abort, code, written, out]; written tells whether
\* *out_len and *out_data were assigned
c_decode(node) ==
    IF node_is_full(node) = "panic"
    THEN [abort |-> TRUE, code |-> 0, written |-> FALSE, out |-> <<>>]
    ELSE IF node_is_full(node) # "true"
    THEN [abort |-> FALSE, code |-> -1, written |-> FALSE, out |-> <<>>]
    ELSE LET data == decode(node)
         IN  IF data.out = "panic"
             THEN [abort |-> TRUE, code |-> 0, written |-> FALSE, out |-> <<>>]
             ELSE IF data.out = "Ok"
             THEN [abort |-> FALSE, code |-> 0, written |-> TRUE, out |-> data.v]
             ELSE [abort |-> FALSE, code |-> 0, written |-> FALSE, out |-> <<>>]

----------------------------------------------------------------------------
(* SpecEch: an Eschelon driven directly, as in the tests of matrix.rs.     *)

\* Eschelon::new(3) in test_add_row, test_inverse and test_compound_scalars
EchSize == 3

\* ret: op is the call, node the Node it was made on, arg its input where the
\* claims need it, result what it returned, value the value inside an Ok.
\* The row of add_row and the scalars of compound_scalars are not recorded:
\* the properties of these two quantify over every input instead.
NoRet == [op |-> "none", node |-> "-", arg |-> <<>>, result |-> "-", value |-> <<>>]

\* net before Network::new has returned a Network
NoNet ==
    [neighbors |-> <<>>, sent_message |-> <<>>, timestamp |-> 0,
     wasted_bandwdidth |-> 0, full_nodes |-> 0,
     round_messages |-> <<>>, round_destinations |-> <<>>]

BoolStr(b) == IF b THEN "true" ELSE "false"

EchRows == [1..EchSize -> 0..RowMax]

InitEch ==
    /\ ech \in {EschelonNew(EchSize), EschelonNewIdentity(EchSize)}
    /\ generators = <<>>
    /\ blocks = <<>>
    /\ nodes = <<>>
    /\ msg = [data |-> <<>>, coefficients |-> <<>>, commitments |-> <<>>]
    /\ ret = NoRet
    /\ net = NoNet

EchAddRow(row) ==
    LET ar == add_row(ech, row)
    IN  /\ ech' = ar.e
        /\ ret' = [op |-> "add_row", node |-> "-", arg |-> <<>>,
                   result |-> IF ar.panic THEN "panic" ELSE BoolStr(ar.ok),
                   value |-> <<>>]
        /\ UNCHANGED <<generators, blocks, nodes, msg, net>>

EchInverse ==
    LET inv == inverse(ech)
    IN  /\ ret' = [op |-> "inverse", node |-> "-", arg |-> <<>>,
                   result |-> IF inv.ok THEN "Ok" ELSE "Err", value |-> inv.m]
        /\ UNCHANGED <<ech, generators, blocks, nodes, msg, net>>

EchCompoundScalars(scalars) ==
    /\ ret' = [op |-> "compound_scalars", node |-> "-", arg |-> <<>>,
               result |-> IF compound_scalars_panics(ech, scalars)
                          THEN "panic" ELSE "Ok",
               value |-> <<>>]
    /\ UNCHANGED <<ech, generators, blocks, nodes, msg, net>>

EchIsFull ==
    /\ ret' = [op |-> "is_full", node |-> "-", arg |-> <<>>,
               result |-> is_full(ech), value |-> <<>>]
    /\ UNCHANGED <<ech, generators, blocks, nodes, msg, net>>

NextEch ==
    \/ \E row \in EchRows : EchAddRow(row)
    \/ EchInverse
    \/ \E scalars \in generate_random_coeffs(EchSize) : EchCompoundScalars(scalars)
    \/ EchIsFull

SpecEch == InitEch /\ [][NextEch]_vars

----------------------------------------------------------------------------
(* Networks of Nodes sharing one Committer.  Sources are built by          *)
(* Node::new_source, each from its own block; the other nodes are built by *)
(* Node::new.  Any node may send; the Message it returns may then be       *)
(* delivered, any number of times, to any node.                            *)

\* num_chunks of every node (K)
NumChunks == 2

\* the generator vectors Committer::new may draw (discrete logarithms of
\* the random points; a zero, of probability 2^-128, is left out)
GeneratorChoices == {<<3, 5>>, <<2, 7, 4>>}

\* a block whose first chunk is w, every byte of chunk c (0-based) being the
\* byte of w plus c * step
SteppedBlock(w, step) ==
    [i \in 1..(NumChunks * Len(w)) |->
        (w[((i - 1) % Len(w)) + 1] + step * ((i - 1) \div Len(w))) % ByteMod]

\* blocks of one word per chunk: any first word, step 1
WordBlocks == {SteppedBlock(w, 1) : w \in [1..WordBytes -> Bytes]}

\* blocks whose chunks span two super-blocks (SuperBlockWords + 1 words)
LongBlocks ==
    {SteppedBlock(w, 1) : w \in {<<1, 3, 0, 2, 3, 3, 2, 1>>, <<3, 2, 1, 3, 0, 0, 2, 3>>}}

\* generators for the chunks of LongBlocks
LongGenerators == <<3, 5, 2, 7, 4, 6>>

\* the state after the nodes are constructed: srcs are the sources, rcvs the
\* nodes built empty, gens the generators, blks the block of each source
InitNetwork(srcs, rcvs, gens, blks) ==
    /\ ech = EschelonNew(0)
    /\ generators = gens
    /\ blocks = blks
    /\ \A s \in srcs : new_source(gens, blks[s], NumChunks).out = "Ok"
    /\ nodes = [n \in srcs \cup rcvs |->
                   IF n \in srcs
                   THEN new_source(gens, blks[n], NumChunks).node
                   ELSE NodeNew(NumChunks)]
    /\ msg = NoMsg
    /\ ret = NoRet
    /\ net = NoNet

NodeIds == DOMAIN nodes

\* cfg(debug_assertions): the tests are built with debug assertions on
DebugAssertions == TRUE

\* n.send(): the Message returned replaces the one in flight
Send(n, scalars) ==
    LET r == send(nodes[n], scalars, generators, DebugAssertions)
    IN  /\ msg' = IF r.out = "Ok" THEN r.msg ELSE msg
        /\ ret' = [op |-> "send", node |-> n, arg |-> <<>>, result |-> r.out,
                   value |-> <<>>]
        /\ UNCHANGED <<ech, generators, blocks, nodes, net>>

\* what the network hands to receive: the Message as sent, or changed in
\* transit: one scalar of data altered, a zero scalar appended to data, or the
\* last scalar of data dropped
TamperKinds == {"data", "extend", "truncate"}

Tamper(m, t) ==
    IF t = "data" THEN [m EXCEPT !.data[1] = Add(@, ONE)]
    ELSE IF t = "extend" THEN [m EXCEPT !.data = Append(@, ZERO)]
    ELSE IF t = "truncate" THEN [m EXCEPT !.data = SubSeq(@, 1, Len(@) - 1)]
    ELSE m

\* n.receive(message) with the message in flight, delivered as t says
Deliver(n, t) ==
    LET r == receive(nodes[n], Tamper(msg, t), generators)
    IN  /\ msg # NoMsg
        /\ nodes' = [nodes EXCEPT ![n] = r.node]
        /\ ret' = [op |-> "receive", node |-> n, arg |-> t, result |-> r.result,
                   value |-> <<>>]
        /\ UNCHANGED <<ech, generators, blocks, msg, net>>

Receive(n) == Deliver(n, "none")

ReceiveTampered(n, t) == Deliver(n, t)

\* n.decode() taking the chunks out of the node
DecodeTakesChunks(n) ==
    LET r == decode(nodes[n])
    IN  /\ ret' = [op |-> "decode", node |-> n, arg |-> <<>>, result |-> r.out,
                   value |-> r.v]
        /\ nodes' = [nodes EXCEPT ![n].chunks = <<>>]
        /\ UNCHANGED <<ech, generators, blocks, msg, net>>

\* n.decode()
Decode(n) ==
    LET r == decode(nodes[n])
    IN  /\ ret' = [op |-> "decode", node |-> n, arg |-> <<>>, result |-> r.out,
                   value |-> r.v]
        /\ UNCHANGED <<ech, generators, blocks, nodes, msg, net>>

\* n.is_full()
IsFull(n) ==
    /\ ret' = [op |-> "is_full", node |-> n, arg |-> <<>>,
               result |-> node_is_full(nodes[n]), value |-> <<>>]
    /\ UNCHANGED <<ech, generators, blocks, nodes, msg, net>>

Next ==
    \/ \E n \in NodeIds :
          \E scalars \in generate_random_coeffs(Len(nodes[n].chunks)) :
              Send(n, scalars)
    \/ \E n \in NodeIds : Receive(n)
    \/ \E n \in NodeIds : Decode(n)
    \/ \E n \in NodeIds : IsFull(n)

\* Spec: a source S and two nodes A and B that recode what they receive
Init ==
    \E gens \in GeneratorChoices :
        InitNetwork({"S"}, {"A", "B"}, gens,
                    [s \in {"S"} |-> SteppedBlock(<<1, 3>>, 1)])

Spec == Init /\ [][Next]_vars

\* SpecBlock: a source S built from any of the blocks, with generators for
\* exactly the scalars of a chunk, and one receiver D
InitBlock ==
    \E gens \in GeneratorChoices \cup {LongGenerators} :
      \E b \in WordBlocks \cup LongBlocks :
        /\ Len(gens) = Len(chunk_to_scalars(SubSeq(b, 1, Len(b) \div NumChunks)).v)
        /\ InitNetwork({"S"}, {"D"}, gens, [s \in {"S"} |-> b])

SpecBlock == InitBlock /\ [][Next]_vars

\* SpecAdv: two sources S and X of different blocks and one receiver A, with
\* messages changed in transit
InitAdv ==
    \E gens \in GeneratorChoices :
        InitNetwork({"S", "X"}, {"A"}, gens,
                    [s \in {"S", "X"} |-> IF s = "S" THEN SteppedBlock(<<1, 3>>, 1)
                                                     ELSE SteppedBlock(<<3, 2>>, 3)])

NextAdv ==
    \/ Next
    \/ \E n \in NodeIds : \E t \in TamperKinds : ReceiveTampered(n, t)

SpecAdv == InitAdv /\ [][NextAdv]_vars

\* SpecForge: a source S and one receiver A, with messages put on the wire by
\* a sender that builds them itself: receive_chunk (c_api.rs) hands receive
\* whatever Message the bytes deserialize to.

\* the data such a sender commits to
ForgedData == {<<1, 0>>, <<2, 5>>}

\* a self-consistent Message of k coefficients: coefficient p is one, the
\* others zero, and every commitment is the commitment of the data, so
\* verify passes
Forge(d, k, p) ==
    [data         |-> d,
     coefficients |-> IdentityRow(k, p),
     commitments  |-> [i \in 1..k |-> commit(generators, d).v]]

\* the forged Message replaces the one in flight
Inject(d, k, p) ==
    /\ msg' = Forge(d, k, p)
    /\ ret' = [op |-> "inject", node |-> "-", arg |-> <<>>, result |-> "-",
               value |-> <<>>]
    /\ UNCHANGED <<ech, generators, blocks, nodes, net>>

InitForge ==
    \E gens \in GeneratorChoices :
        InitNetwork({"S"}, {"A"}, gens, [s \in {"S"} |-> SteppedBlock(<<1, 3>>, 1)])

NextForge ==
    \/ Next
    \/ \E d \in ForgedData : \E k \in 1..NumChunks : \E p \in 1..k : Inject(d, k, p)

SpecForge == InitForge /\ [][NextForge]_vars

\* SpecAbi: a source S and a node A driven through the C ABI.  The bytes
\* handed to receive_chunk are those of a Message a node sent, those of a
\* Message the caller built, or bytes that do not deserialize.

\* the data of the Messages the caller builds; the last is a single scalar
AbiForgedData == ForgedData \cup {<<1>>}

\* op is the function called, result "return" or "abort", value the code
\* returned, arg what the call wrote through its out pointers
AbiRet(op, n, r, out) ==
    [op |-> op, node |-> n, arg |-> out,
     result |-> IF r.abort THEN "abort" ELSE "return",
     value |-> IF r.abort THEN <<>> ELSE <<r.code>>]

SendChunk(n, scalars) ==
    LET r == send_chunk(nodes[n], scalars, generators, DebugAssertions)
    IN  /\ msg' = IF ~r.abort /\ r.code = 0 THEN r.msg ELSE msg
        /\ ret' = AbiRet("send_chunk", n, r, <<>>)
        /\ UNCHANGED <<ech, generators, blocks, nodes, net>>

\* receive_chunk on the bytes of the Message in flight, delivered as t says,
\* or, valid being FALSE, on bytes that do not deserialize
ReceiveChunk(n, valid, t) ==
    LET r == receive_chunk(nodes[n], Wire(valid, Tamper(msg, t)), generators)
    IN  /\ msg # NoMsg
        /\ ~valid => t = "none"
        /\ nodes' = [nodes EXCEPT ![n] = r.node]
        /\ ret' = AbiRet("receive_chunk", n, r, [valid |-> valid, t |-> t])
        /\ UNCHANGED <<ech, generators, blocks, msg, net>>

CIsFull(n) ==
    /\ ret' = AbiRet("is_full", n, c_is_full(nodes[n]), <<>>)
    /\ UNCHANGED <<ech, generators, blocks, nodes, msg, net>>

CDecode(n) ==
    LET r == c_decode(nodes[n])
    IN  /\ ret' = AbiRet("decode", n, r, [written |-> r.written, out |-> r.out])
        /\ UNCHANGED <<ech, generators, blocks, nodes, msg, net>>

InitAbi ==
    \E gens \in GeneratorChoices :
        InitNetwork({"S"}, {"A"}, gens, [s \in {"S"} |-> SteppedBlock(<<1, 3>>, 1)])

NextAbi ==
    \/ \E n \in NodeIds :
          \E scalars \in generate_random_coeffs(Len(nodes[n].chunks)) :
              SendChunk(n, scalars)
    \/ \E n \in NodeIds : \E valid \in BOOLEAN :
          \E t \in TamperKinds \cup {"none"} : ReceiveChunk(n, valid, t)
    \/ \E n \in NodeIds : CIsFull(n)
    \/ \E n \in NodeIds : CDecode(n)
    \/ \E d \in AbiForgedData : \E k \in 1..NumChunks : \E p \in 1..k :
          Inject(d, k, p)

SpecAbi == InitAbi /\ [][NextAbi]_vars

\* SpecSource: Committer::new and Node::new_source on blocks of several
\* sizes, followed by the sends of the source that was built.

\* most words in a block
MaxBlockWords == 4

\* the buffer of n bytes that repeats the bytes of s
CycleBuffer(s, n) == [i \in 1..n |-> s[((i - 1) % Len(s)) + 1]]

\* the byte patterns the blocks are filled with
SourceSeeds == {<<1, 3, 0>>, <<3, 2, 1>>, <<0, 0, 2>>}

SourceBlocks ==
    {CycleBuffer(s, n * WordBytes) : s \in SourceSeeds, n \in 1..MaxBlockWords}

\* two draws of the random generators
GeneratorSeeds == {3, 7}

\* Committer::new(n): n generators (discrete logarithms, none zero)
CommitterNew(n, seed) == [i \in 1..n |-> ((i * seed) % (P - 1)) + 1]

\* (chunk_bytes * 8 + 251) / 252 of test_roundtrip; 252 is the number of bits
\* of a word less the stripped ones
SizingRule(chunk_bytes) ==
    LET data_bits == WordBytes * ByteBits - HighBits
    IN  (chunk_bytes * ByteBits + (data_bits - 1)) \div data_bits

InitSource ==
    \E n \in 1..SizingRule(MaxBlockWords * WordBytes) :
      \E seed \in GeneratorSeeds : \E b \in SourceBlocks :
        /\ ech = EschelonNew(0)
        /\ generators = CommitterNew(n, seed)
        /\ blocks = [s \in {"S"} |-> b]
        /\ nodes = <<>>
        /\ msg = NoMsg
        /\ ret = NoRet
        /\ net = NoNet

\* Node::new_source(&committer, &block, num_chunks): S is the node built, if
\* one was
NewSource(num_chunks) ==
    LET r == new_source(generators, blocks["S"], num_chunks)
    IN  /\ nodes' = IF r.out = "Ok" THEN [s \in {"S"} |-> r.node] ELSE <<>>
        /\ msg' = NoMsg
        /\ ret' = [op |-> "new_source", node |-> "S", arg |-> num_chunks,
                   result |-> r.out, value |-> <<>>]
        /\ UNCHANGED <<ech, generators, blocks, net>>

NextSource ==
    \/ \E num_chunks \in 1..NumChunks : NewSource(num_chunks)
    \/ \E n \in NodeIds :
          \E scalars \in generate_random_coeffs(Len(nodes[n].chunks)) :
              Send(n, scalars)

SpecSource == InitSource /\ [][NextSource]_vars

\* SpecCommit: a Committer of up to MaxGenerators generators, and commit
\* called on scalar vectors both shorter and longer than it.

\* the scalar vectors handed to commit: up to one more than the generators
CommitInputs ==
    UNION {[1..m -> 0..ScalarMax] : m \in 0..(MaxGenerators + 1)}

InitCommit ==
    \E n \in 0..MaxGenerators : \E seed \in GeneratorSeeds :
        /\ ech = EschelonNew(0)
        /\ generators = CommitterNew(n, seed)
        /\ blocks = <<>>
        /\ nodes = <<>>
        /\ msg = NoMsg
        /\ ret = NoRet
        /\ net = NoNet

\* committer.commit(&scalars): arg is the input, value the point of an Ok
Commit(scalars) ==
    LET r == commit(generators, scalars)
    IN  /\ ret' = [op |-> "commit", node |-> "-", arg |-> scalars,
                   result |-> IF r.ok THEN "Ok" ELSE "Err",
                   value |-> IF r.ok THEN <<r.v>> ELSE <<>>]
        /\ UNCHANGED <<ech, generators, blocks, nodes, msg, net>>

\* committer.len()
CommitterLen ==
    /\ ret' = [op |-> "len", node |-> "-", arg |-> <<>>, result |-> "Ok",
               value |-> <<Len(generators)>>]
    /\ UNCHANGED <<ech, generators, blocks, nodes, msg, net>>

NextCommit ==
    \/ \E scalars \in CommitInputs : Commit(scalars)
    \/ CommitterLen

SpecCommit == InitCommit /\ [][NextCommit]_vars

\* SpecCodec: the two codecs applied to byte buffers, each inverse applied to
\* what its forward map returned.

\* longest buffer, in bytes: two super-blocks and one word
MaxBufLen == 14

CodecSeeds == [1..3 -> Bytes]

CodecBuffers == {CycleBuffer(s, n) : s \in CodecSeeds, n \in 0..MaxBufLen}

InitCodec ==
    \E b \in CodecBuffers :
        /\ ech = EschelonNew(0)
        /\ generators = <<>>
        /\ blocks = [x \in {"buffer"} |-> b]
        /\ nodes = <<>>
        /\ msg = NoMsg
        /\ ret = NoRet
        /\ net = NoNet

ChunkToScalars ==
    LET r == chunk_to_scalars(blocks["buffer"])
    IN  /\ ret' = [op |-> "chunk_to_scalars", node |-> "-", arg |-> <<>>,
                   result |-> IF r.ok THEN "Ok" ELSE "Err", value |-> r.v]
        /\ UNCHANGED <<ech, generators, blocks, nodes, msg, net>>

ScalarsToChunk ==
    /\ ret.op = "chunk_to_scalars" /\ ret.result = "Ok"
    /\ LET r == scalars_to_chunk(ret.value)
       IN  ret' = [op |-> "scalars_to_chunk", node |-> "-", arg |-> <<>>,
                   result |-> IF r.ok THEN "Ok" ELSE "Err", value |-> r.v]
    /\ UNCHANGED <<ech, generators, blocks, nodes, msg, net>>

ChunkToScalars31 ==
    LET r == chunk_to_scalars_31(blocks["buffer"])
    IN  /\ ret' = [op |-> "chunk_to_scalars_31", node |-> "-", arg |-> <<>>,
                   result |-> IF r.ok THEN "Ok" ELSE "Err", value |-> r.v]
        /\ UNCHANGED <<ech, generators, blocks, nodes, msg, net>>

ScalarsToChunk31 ==
    /\ ret.op = "chunk_to_scalars_31" /\ ret.result = "Ok"
    /\ ret' = [op |-> "scalars_to_chunk_31", node |-> "-", arg |-> <<>>,
               result |-> "Ok", value |-> scalars_to_chunk_31(ret.value)]
    /\ UNCHANGED <<ech, generators, blocks, nodes, msg, net>>

NextCodec ==
    \/ ChunkToScalars
    \/ ScalarsToChunk
    \/ ChunkToScalars31
    \/ ScalarsToChunk31

SpecCodec == InitCodec /\ [][NextCodec]_vars

\* SpecUnpack: scalars_to_chunk applied to scalar vectors of every length up
\* to MaxScalars, whether or not chunk_to_scalars can return them.

\* the scalar patterns the vectors are filled with
UnpackSeeds == [1..3 -> 0..ScalarMax]

UnpackInputs == {CycleBuffer(s, n) : s \in UnpackSeeds, n \in 0..MaxScalars}

\* the vector is held as the data of msg
InitUnpack ==
    \E v \in UnpackInputs :
        /\ ech = EschelonNew(0)
        /\ generators = <<>>
        /\ blocks = <<>>
        /\ nodes = <<>>
        /\ msg = [data |-> v, coefficients |-> <<>>, commitments |-> <<>>]
        /\ ret = NoRet
        /\ net = NoNet

\* scalars_to_chunk(&scalars)
Unpack ==
    LET r == scalars_to_chunk(msg.data)
    IN  /\ ret' = [op |-> "scalars_to_chunk", node |-> "-", arg |-> <<>>,
                   result |-> IF r.ok THEN "Ok" ELSE "Err", value |-> r.v]
        /\ UNCHANGED <<ech, generators, blocks, nodes, msg, net>>

\* chunk_to_scalars on the bytes scalars_to_chunk returned
Repack ==
    /\ ret.op = "scalars_to_chunk" /\ ret.result = "Ok"
    /\ LET r == chunk_to_scalars(ret.value)
       IN  ret' = [op |-> "chunk_to_scalars", node |-> "-", arg |-> <<>>,
                   result |-> IF r.ok THEN "Ok" ELSE "Err", value |-> r.v]
    /\ UNCHANGED <<ech, generators, blocks, nodes, msg, net>>

NextUnpack ==
    \/ Unpack
    \/ Repack

SpecUnpack == InitUnpack /\ [][NextUnpack]_vars

----------------------------------------------------------------------------
(* bin/random_topology_rlnc.rs: the gossip simulator.  nodes holds the     *)
(* Node of every SimulationNode, in the order of Network.nodes (the node   *)
(* of Vec index i is nodes[i + 1], and neighbours are numbered likewise);  *)
(* net holds the neighbours, the sent_message flags and the other fields   *)
(* of the Network.                                                         *)

\* num_nodes of run_simulation is at most SimNodes (10000 in the source)
SimNodes == 3

\* mesh_size of run_simulation (60 in the source)
MeshSize == 2

\* the rounds run_simulation allows (timestamp < 100 in the source)
MaxRounds == 4

\* random_u8_slice(length): bytes drawn (here the bytes of draw, repeated),
\* the last byte of every word then set to 0
random_u8_slice(length, draw) ==
    [i \in 1..length |->
        IF i % WordBytes = 0 THEN 0 ELSE draw[((i - 1) % Len(draw)) + 1]]

\* the neighbour lists create_nodes may draw: mesh_size values of
\* rand::random::<usize>() % num for each of the num nodes
Topologies(num) == [1..num -> [1..MeshSize -> 1..num]]

\* Network::create_nodes: the source first (its Result unwrapped), num - 1
\* empty nodes after it, then the neighbours of nodes 0..num
create_nodes(gens, num, num_chunks, nbrs, block) ==
    LET s == new_source(gens, block, num_chunks)
        n == IF num = 0 THEN 1 ELSE num
    IN  IF s.out # "Ok"
        THEN [out |-> "panic", nodes |-> <<>>, neighbors |-> <<>>,
              sent_message |-> <<>>]
        ELSE [out          |-> "Ok",
              nodes        |-> [i \in 1..n |->
                                   IF i = 1 THEN s.node ELSE NodeNew(num_chunks)],
              neighbors    |-> [i \in 1..n |-> IF i <= num THEN nbrs[i] ELSE <<>>],
              sent_message |-> [i \in 1..n |-> FALSE]]

\* Network::new: num_chunks chunks of committer.len() words each
NetworkNew(gens, num_nodes, nbrs, draw) ==
    LET block == random_u8_slice(Len(gens) * NumChunks * WordBytes, draw)
        c     == create_nodes(gens, num_nodes, NumChunks, nbrs, block)
    IN  [out   |-> c.out,
         block |-> block,
         nodes |-> c.nodes,
         net   |-> [neighbors          |-> c.neighbors,
                    sent_message       |-> c.sent_message,
                    timestamp          |-> 0,
                    wasted_bandwdidth  |-> 0,
                    full_nodes         |-> 1,
                    round_messages     |-> <<>>,
                    round_destinations |-> <<>>]]

\* Network::all_nodes_full
all_nodes_full(ns, nt) == nt.full_nodes = Len(ns)

\* the sets of a sequence of sets multiplied out
RECURSIVE SeqProduct(_)
SeqProduct(sets) ==
    IF sets = <<>> THEN {<<>>}
    ELSE {<<x>> \o r : x \in Head(sets), r \in SeqProduct(Tail(sets))}

\* the scalars the sends of one round may draw: draws[i][p] for the send of
\* node i to its p-th neighbour (nothing is drawn where no send is made)
RoundDraws(ns, nt) ==
    SeqProduct([i \in 1..Len(ns) |->
        SeqProduct([p \in 1..Len(nt.neighbors[i]) |->
            IF nt.sent_message[i] \/ nt.neighbors[i][p] = i
            THEN {<<>>}
            ELSE generate_random_coeffs(Len(ns[i].chunks))])])

\* the first loop of round: every node that has not sent before calls send
\* once for each neighbour other than itself; the calls in order, with the
\* destination of each
RoundSends(ns, nt, draws, gens) ==
    Flatten([i \in 1..Len(ns) |->
        IF nt.sent_message[i] THEN <<>>
        ELSE Flatten([p \in 1..Len(nt.neighbors[i]) |->
                IF nt.neighbors[i][p] = i THEN <<>>
                ELSE LET r == send(ns[i], draws[i][p], gens, DebugAssertions)
                     IN  <<[from |-> i, dest |-> nt.neighbors[i][p],
                            out |-> r.out, msg |-> r.msg]>>])])

\* the second loop of round from the k-th message on: st holds the nodes,
\* the two counters, the result of every delivery so far, and out ("panic"
\* once a delivery has panicked)
RECURSIVE RoundDeliveries(_, _, _, _)
RoundDeliveries(st, sends, k, gens) ==
    IF k > Len(sends) \/ st.out = "panic" THEN st
    ELSE LET j == sends[k].dest
             r == receive(st.nodes[j], sends[k].msg, gens)
         IN  IF r.result = "Ok"
             THEN LET full == node_is_full(r.node)
                  IN  IF full = "panic" THEN [st EXCEPT !.out = "panic"]
                      ELSE RoundDeliveries(
                               [st EXCEPT !.nodes[j] = r.node,
                                          !.full_nodes =
                                              IF full = "true" THEN @ + 1 ELSE @,
                                          !.results = Append(@, "Ok")],
                               sends, k + 1, gens)
             ELSE IF r.result = "LinearlyDependentChunk"
             THEN RoundDeliveries(
                      [st EXCEPT !.wasted_bandwdidth = @ + 1,
                                 !.results = Append(@, r.result)],
                      sends, k + 1, gens)
             ELSE [st EXCEPT !.out = "panic"]

\* Network::round with the scalars its sends draw
round(ns, nt, draws, gens) ==
    LET calls == RoundSends(ns, nt, draws, gens)
        sends == SelectSeq(calls, LAMBDA c : c.out = "Ok")
        st    == RoundDeliveries(
                     [nodes |-> ns, full_nodes |-> nt.full_nodes,
                      wasted_bandwdidth |-> nt.wasted_bandwdidth,
                      results |-> <<>>, out |-> "Ok"],
                     sends, 1, gens)
    IN  IF \E c \in 1..Len(calls) : calls[c].out = "panic"
        THEN [out |-> "panic", nodes |-> ns, net |-> nt, results |-> <<>>]
        ELSE [out     |-> st.out,
              nodes   |-> st.nodes,
              results |-> st.results,
              net     |-> [nt EXCEPT
                  !.timestamp = @ + 1,
                  !.sent_message =
                      [i \in 1..Len(ns) |->
                          @[i] \/ \E c \in 1..Len(sends) : sends[c].from = i],
                  !.round_messages = [c \in 1..Len(sends) |-> sends[c].msg],
                  !.round_destinations = [c \in 1..Len(sends) |-> sends[c].dest],
                  !.full_nodes = st.full_nodes,
                  !.wasted_bandwdidth = st.wasted_bandwdidth]]

\* SpecSim: run_simulation up to the Network it builds.  Network::new is
\* called once, with the committer run_simulation made (one generator in the
\* source; any number up to MaxGenerators here)
InitSim ==
    \E n \in 0..MaxGenerators : \E seed \in GeneratorSeeds :
        /\ ech = EschelonNew(0)
        /\ generators = CommitterNew(n, seed)
        /\ blocks = <<>>
        /\ nodes = <<>>
        /\ msg = NoMsg
        /\ ret = NoRet
        /\ net = NoNet

\* let mut network = Network::new(&committer, num_nodes, mesh_size)
SimNetworkNew(num_nodes, nbrs, draw) ==
    LET r == NetworkNew(generators, num_nodes, nbrs, draw)
    IN  /\ ret.op = "none"
        /\ ret' = [op |-> "Network::new", node |-> "-",
                   arg |-> [num_nodes |-> num_nodes, neighbors |-> nbrs,
                            block |-> r.block],
                   result |-> r.out, value |-> <<>>]
        /\ IF r.out = "Ok"
           THEN /\ nodes' = r.nodes
                /\ net' = r.net
                /\ blocks' = <<r.block>>
           ELSE UNCHANGED <<nodes, net, blocks>>
        /\ UNCHANGED <<ech, generators, msg>>

NextSim ==
    \E num_nodes \in 0..SimNodes : \E nbrs \in Topologies(num_nodes) :
        \E draw \in SourceSeeds :
            SimNetworkNew(num_nodes, nbrs, draw)

SpecSim == InitSim /\ [][NextSim]_vars

\* SpecRound: the rounds of run_simulation on the Network that create_nodes
\* builds from a block whose chunks the committer has generators for.
\* Network::new never hands create_nodes such a block, so these are states
\* of Network::round that run_simulation does not reach
InitRound ==
    \E gens \in GeneratorChoices : \E num \in 1..SimNodes :
      \E nbrs \in Topologies(num) :
        LET block == SteppedBlock(<<1, 3>>, 1)
            c     == create_nodes(gens, num, NumChunks, nbrs, block)
        IN  /\ c.out = "Ok"
            /\ ech = EschelonNew(0)
            /\ generators = gens
            /\ blocks = <<block>>
            /\ nodes = c.nodes
            /\ msg = NoMsg
            /\ ret = NoRet
            /\ net = [NoNet EXCEPT !.neighbors = c.neighbors,
                                   !.sent_message = c.sent_message,
                                   !.full_nodes = 1]

\* network.round() inside the loop of run_simulation
Round(draws) ==
    LET r == round(nodes, net, draws, generators)
    IN  /\ ret.result # "panic"
        /\ ~all_nodes_full(nodes, net)
        /\ net.timestamp < MaxRounds
        /\ ret' = [op |-> "round", node |-> "-", arg |-> draws,
                   result |-> r.out, value |-> r.results]
        /\ IF r.out = "Ok"
           THEN /\ nodes' = r.nodes
                /\ net' = r.net
           ELSE UNCHANGED <<nodes, net>>
        /\ UNCHANGED <<ech, generators, blocks, msg>>

NextRound == \E draws \in RoundDraws(nodes, net) : Round(draws)

SpecRound == InitRound /\ [][NextRound]_vars

----------------------------------------------------------------------------
(* Linear algebra over the field, used to state the properties.            *)

\* the elements of a finite set of integers in increasing order
RECURSIVE SortedSeq(_)
SortedSeq(S) ==
    IF S = {} THEN <<>>
    ELSE LET m == CHOOSE x \in S : \A y \in S : x <= y
         IN  <<m>> \o SortedSeq(S \ {m})

\* the matrix m without its first row and without column c
DropFirstRowAndCol(m, c) ==
    [i \in 1..(Len(m) - 1) |->
        [j \in 1..(Len(m) - 1) |-> IF j < c THEN m[i + 1][j] ELSE m[i + 1][j + 1]]]

\* determinant of a square matrix, by expansion along the first row
RECURSIVE Det(_)
Det(m) ==
    IF Len(m) = 0 THEN ONE
    ELSE SumSeq([c \in 1..Len(m) |->
            LET t == Mul(m[1][c], Det(DropFirstRowAndCol(m, c)))
            IN  IF c % 2 = 1 THEN t ELSE Sub(ZERO, t)])

\* the rows R and columns C (sets of indices) of m
SubMatrix(m, R, C) ==
    LET rs == SortedSeq(R)
        cs == SortedSeq(C)
    IN  [i \in 1..Len(rs) |-> [j \in 1..Len(cs) |-> m[rs[i]][cs[j]]]]

\* m has a nonzero minor of size k (n is the number of columns of m)
HasMinor(m, n, k) ==
    \E R \in SUBSET (1..Len(m)) : \E C \in SUBSET (1..n) :
        /\ Cardinality(R) = k
        /\ Cardinality(C) = k
        /\ Det(SubMatrix(m, R, C)) # ZERO

\* the largest k <= top for which m has a nonzero minor of size k
RECURSIVE LargestMinor(_, _, _)
LargestMinor(m, n, top) ==
    IF top = 0 \/ HasMinor(m, n, top) THEN top ELSE LargestMinor(m, n, top - 1)

\* rank of a matrix with n columns: the size of its largest nonzero minor
Rank(m, n) == LargestMinor(m, n, Min(Len(m), n))

\* row lies in the row-span of rows: adding it does not raise the rank
InSpan(row, rows) == Rank(Append(rows, row), Len(row)) = Rank(rows, Len(row))

\* row i of the product a * b, b having n columns
RowTimes(arow, b, n) ==
    [j \in 1..n |-> SumSeq([x \in 1..Len(b) |-> Mul(arow[x], b[x][j])])]

MatMul(a, b, n) == [i \in 1..Len(a) |-> RowTimes(a[i], b, n)]

\* coefficients padded to size rows by the identity below the filled prefix
Padded(e, size) ==
    [i \in 1..size |->
        IF i <= Len(e.coefficients) THEN e.coefficients[i] ELSE IdentityRow(size, i)]

----------------------------------------------------------------------------
(* Properties of the Eschelon, checked under SpecEch.                      *)

\* C3: dependence detection: in every Eschelon state that construction or
\* add_row has produced, for every row r of length K, add_row(r) returns
\* false exactly when r lies in the row-span of the rows accepted so far.
DependenceDetection ==
    ret.op \in {"none", "add_row"} =>
        LET rank == Rank(ech.coefficients, EchSize)
        IN  \A row \in EchRows :
                LET ar == add_row(ech, row)
                IN  /\ ~ar.panic
                    /\ ar.ok = ~(Rank(Append(ech.coefficients, row), EchSize) = rank)

\* C3 witness: a call returned false on a partly filled system that holds a
\* nonzero row which is in the span without being one of the accepted rows.
DependenceDetectionWitness ==
    /\ ret.op = "add_row" /\ ret.result = "false"
    /\ Len(ech.coefficients) = 2
    /\ \E row \in EchRows :
          /\ ~AllZero(row)
          /\ \A i \in 1..2 : ech.coefficients[i] # row
          /\ InSpan(row, ech.coefficients)
          /\ ~add_row(ech, row).ok

\* C4: echelon witness: for every i below the row count, row i of transform
\* times the coefficients (padded to K rows by the identity) is row i of the
\* echelon matrix.
EchelonWitness ==
    \A i \in 1..Len(ech.coefficients) :
        RowTimes(ech.transform[i], Padded(ech, EchSize), EchSize) = ech.eschelon[i]

\* C4 witness: three rows were accepted, the echelon rows are in an order
\* different from the order of arrival, and a row was reduced.
EchelonWitnessWitness ==
    /\ ret.op = "add_row" /\ ret.result = "true"
    /\ Len(ech.coefficients) = 3
    /\ ech.eschelon[1] = ech.coefficients[3]
    /\ ech.eschelon[3] # ech.coefficients[1]
    /\ ech.eschelon[3] # ech.coefficients[2]

\* C5: inverse correctness: when K rows are held, inverse() returns Ok(M)
\* with M * coefficients = I_K.
InverseCorrect ==
    (ret.op = "inverse" /\ Len(ech.coefficients) = EchSize) =>
        /\ ret.result = "Ok"
        /\ MatMul(ret.value, ech.coefficients, EchSize) = IdentityMatrix(EchSize)

\* C5 witness: inverse() returned on a full system that was not built in
\* pivot order and whose inverse is not the identity.
InverseCorrectWitness ==
    /\ ret.op = "inverse" /\ ret.result = "Ok"
    /\ Len(ech.coefficients) = EchSize
    /\ ech.eschelon # ech.coefficients
    /\ ret.value # IdentityMatrix(EchSize)

----------------------------------------------------------------------------
(* Properties of the Node.                                                 *)

\* sum_j c[j] * rows[j], a vector of length n
LinComb(c, rows, n) ==
    [k \in 1..n |-> SumSeq([j \in 1..Len(rows) |-> Mul(c[j], rows[j][k])])]

\* the nodes built by Node::new
Receivers == NodeIds \ DOMAIN blocks

\* the chunks of a block as new_source encodes them
SourceChunks(s) == nodes[s].chunks

\* C1: decode round-trip (SpecBlock): when a node built by Node::new holds K
\* rows, all of them received from the source S, decode() returns Ok with the
\* block S was built from, byte for byte and of the same length.
DecodeRoundTrip ==
    (/\ ret.op = "decode"
     /\ ret.node \in Receivers
     /\ Len(nodes[ret.node].chunks) = NumChunks)
    => /\ ret.result = "Ok"
       /\ Len(ret.value) = Len(blocks["S"])
       /\ ret.value = blocks["S"]

\* C1 witness: decode() returned on a receiver whose rows are not the unit
\* rows, for a block with stripped high bits in both chunks.
DecodeRoundTripWitness ==
    /\ ret.op = "decode" /\ ret.node = "D" /\ ret.result = "Ok"
    /\ nodes["D"].echelon.coefficients # IdentityMatrix(NumChunks)
    /\ nodes["D"].echelon.eschelon # nodes["D"].echelon.coefficients
    /\ \A c \in 1..NumChunks :
          blocks["S"][c * WordBytes] >= 2 ^ (ByteBits - HighBits)

HomomorphicCheck(m) ==
    /\ Len(m.data) <= Len(generators)
    /\ SumSeq([i \in 1..Len(m.coefficients) |-> Mul(m.coefficients[i], m.commitments[i])])
         = SumSeq([j \in 1..Len(m.data) |-> Mul(m.data[j], generators[j])])

\* the result of the first check of the pipeline that fails for m, else Ok
FirstFailingCheck(node, m) ==
    IF node.commitments # <<>> /\ m.commitments # node.commitments
    THEN "ExistingCommitmentsMismatch"
    ELSE IF node.chunks # <<>> /\ Len(m.data) # Len(node.chunks[1])
    THEN "ExistingChunksMismatch"
    ELSE IF ~HomomorphicCheck(m)
    THEN "InvalidMessage"
    ELSE IF InSpan(m.coefficients, node.echelon.coefficients)
    THEN "LinearlyDependentChunk"
    ELSE "Ok"

Deliveries == TamperKinds \cup {"none"}

\* C6: receive is a fail-fast pipeline (SpecAdv): for every node and every
\* message the network can hand it, the result is that of the first failing
\* check in the order commitments, data length, homomorphic check, dependence.
FailFastPipeline ==
    msg # NoMsg =>
        \A n \in NodeIds : \A t \in Deliveries :
            receive(nodes[n], Tamper(msg, t), generators).result
                = FirstFailingCheck(nodes[n], Tamper(msg, t))

\* C6 witness: receive returned InvalidMessage for a forged message whose
\* coefficient row is also dependent, and a message with foreign commitments
\* and a wrong data length is at hand for the same node.
FailFastPipelineWitness ==
    /\ ret.op = "receive" /\ ret.arg = "data" /\ ret.result = "InvalidMessage"
    /\ nodes[ret.node].chunks # <<>>
    /\ nodes[ret.node].commitments = msg.commitments
    /\ InSpan(msg.coefficients, nodes[ret.node].echelon.coefficients)
    /\ \E n \in NodeIds :
          /\ nodes[n].commitments # <<>>
          /\ nodes[n].commitments # msg.commitments
          /\ receive(nodes[n], Tamper(msg, "extend"), generators).result
                = "ExistingCommitmentsMismatch"

\* C7: whenever receive returns an error, the node is left as it was: chunks,
\* commitments and the three matrices of the echelon (SpecAdv).
ErrorLeavesNodeUnchanged ==
    [][(ret'.op = "receive" /\ ret'.result # "Ok") => nodes' = nodes]_vars

\* C7 witness: a forged message was rejected with InvalidMessage by a node
\* that holds a chunk and could have taken the untampered message.
ErrorLeavesNodeUnchangedWitness ==
    /\ ret.op = "receive" /\ ret.arg = "data" /\ ret.result = "InvalidMessage"
    /\ Len(nodes[ret.node].chunks) = 1
    /\ receive(nodes[ret.node], msg, generators).result = "Ok"

\* C8 as claimed: is_full() returns true iff the number of accepted rows is K,
\* for every node state, the freshly constructed empty node included.
IsFullIffRowsEqualK ==
    ret.op = "is_full" =>
        ret.result = BoolStr(Len(nodes[ret.node].echelon.coefficients) = NumChunks)

RedundantRejected ==
    msg # NoMsg =>
        \A n \in NodeIds : \A t \in Deliveries :
            LET m == Tamper(msg, t)
                r == receive(nodes[n], m, generators)
            IN  (/\ nodes[n].commitments # <<>> => m.commitments = nodes[n].commitments
                 /\ nodes[n].chunks # <<>> => Len(m.data) = Len(nodes[n].chunks[1])
                 /\ HomomorphicCheck(m)
                 /\ InSpan(m.coefficients, nodes[n].echelon.coefficients))
                => /\ r.result = "LinearlyDependentChunk"
                   /\ Len(r.node.chunks) = Len(nodes[n].chunks)
                   /\ Len(r.node.echelon.coefficients) = Len(nodes[n].echelon.coefficients)

\* C10 witness: a message the node had accepted was delivered to it again and
\* returned LinearlyDependentChunk, the node holding that one chunk.
RedundantRejectedWitness ==
    /\ ret.op = "receive" /\ ret.arg = "none"
    /\ ret.result = "LinearlyDependentChunk"
    /\ ret.node = "A"
    /\ Len(nodes["A"].chunks) = 1
    /\ nodes["A"].chunks[1] = msg.data
    /\ nodes["A"].echelon.coefficients[1] = msg.coefficients

----------------------------------------------------------------------------
(* Properties of the commitments a node holds.                             *)

\* C11: cross-block rejection (SpecForge): for every node that holds a
\* commitment vector and every message at hand whose commitment vector
\* differs from it, in length or in content, receive returns
\* ExistingCommitmentsMismatch and leaves the node as it was, even when the
\* message passes verify.
CrossBlockRejected ==
    msg # NoMsg =>
        \A n \in NodeIds :
            (nodes[n].commitments # <<>> /\ msg.commitments # nodes[n].commitments)
            => LET r == receive(nodes[n], msg, generators)
               IN  /\ r.result = "ExistingCommitmentsMismatch"
                   /\ r.node = nodes[n]

\* C11 witness: A, primed by a message of S, was handed a message that
\* verifies and carries as many commitments, of another block, and returned
\* ExistingCommitmentsMismatch.
CrossBlockRejectedWitness ==
    /\ ret.op = "receive" /\ ret.node = "A"
    /\ ret.result = "ExistingCommitmentsMismatch"
    /\ nodes["A"].commitments = nodes["S"].commitments
    /\ Len(msg.commitments) = Len(nodes["A"].commitments)
    /\ verify(msg, generators) = "Ok"

\* C12: commitments are pinned (SpecForge): in every step, a node built by
\* Node::new that holds no chunk holds no commitments; commitments that are
\* set stay as they are; empty commitments become those of the message at a
\* successful receive on that node and stay empty in every other step.
CommitmentsPinned ==
    [][\A n \in NodeIds :
          LET first == /\ ret'.op = "receive" /\ ret'.node = n
                       /\ ret'.result = "Ok"
          IN  /\ (n \in Receivers /\ nodes[n].chunks = <<>>)
                    => nodes[n].commitments = <<>>
              /\ nodes[n].commitments # <<>>
                    => nodes'[n].commitments = nodes[n].commitments
              /\ (nodes[n].commitments = <<>> /\ first)
                    => nodes'[n].commitments = msg.commitments
              /\ (nodes[n].commitments = <<>> /\ ~first)
                    => nodes'[n].commitments = <<>>]_vars

\* C12 witness: A, pinned by a forged message, has just accepted a second
\* message and still holds the commitments of the first.
CommitmentsPinnedWitness ==
    /\ ret.op = "receive" /\ ret.node = "A" /\ ret.result = "Ok"
    /\ Len(nodes["A"].chunks) = 2
    /\ nodes["A"].commitments # nodes["S"].commitments
    /\ nodes["A"].commitments = msg.commitments

\* the commitment vector of source s, computed from the block it was built from
SourceCommitments(s) ==
    LET parts == Chunks(blocks[s], Len(blocks[s]) \div NumChunks)
    IN  [c \in 1..NumChunks |-> commit(generators, chunk_to_scalars(parts[c]).v).v]

\* C13: one source, one commitment vector (Spec): every Message returned by
\* any node's send carries exactly the commitment vector of S, and every node
\* that holds at least one chunk stores exactly that vector.
SingleSourceCommitments ==
    /\ msg # NoMsg => msg.commitments = SourceCommitments("S")
    /\ \A n \in NodeIds :
          nodes[n].chunks # <<>> => nodes[n].commitments = SourceCommitments("S")

\* C13 witness: B, holding a chunk that was re-coded on its way, has sent a
\* Message while A holds chunks too.
SingleSourceCommitmentsWitness ==
    /\ ret.op = "send" /\ ret.node = "B" /\ ret.result = "Ok"
    /\ nodes["A"].chunks # <<>>
    /\ nodes["B"].chunks # <<>>
    /\ \E j \in 1..NumChunks : nodes["B"].echelon.coefficients[1][j] > U8Max
    /\ msg.commitments = nodes["B"].commitments

----------------------------------------------------------------------------
(* Properties of the construction of a source, checked under SpecSource.   *)

\* C14 as claimed: new_source with a committer of c generators and a block of
\* K * c words returns Ok with a node of K chunks and K commitments.
SourceFromWordCountCommitter ==
    (/\ ret.op = "new_source"
     /\ Len(blocks["S"]) = ret.arg * Len(generators) * WordBytes)
    => /\ ret.result = "Ok"
       /\ Len(nodes["S"].chunks) = ret.arg
       /\ Len(nodes["S"].commitments) = ret.arg

\* C20: the sizing rule (SpecSource): for chunks of whole words, a committer
\* of SizingRule(chunk_bytes) generators has at least as many generators as
\* the chunk has scalars, new_source returns Ok, and every Message the source
\* can send is returned Ok and passes verify.
SizingRuleSuffices ==
    ret.op = "new_source" =>
        LET chunk_bytes == Len(blocks["S"]) \div ret.arg
        IN  (/\ Len(blocks["S"]) % ret.arg = 0
             /\ chunk_bytes % WordBytes = 0
             /\ Len(generators) = SizingRule(chunk_bytes))
            => /\ Len(generators)
                    >= Len(chunk_to_scalars(SubSeq(blocks["S"], 1, chunk_bytes)).v)
               /\ ret.result = "Ok"
               /\ \A scalars \in generate_random_coeffs(ret.arg) :
                      LET sent == send(nodes["S"], scalars, generators, TRUE)
                      IN  /\ sent.out = "Ok"
                          /\ verify(sent.msg, generators) = "Ok"

\* C20 witness: a source whose chunks span two super-blocks, built with a
\* committer sized by the rule, has sent a Message.
SizingRuleSufficesWitness ==
    /\ ret.op = "send" /\ ret.node = "S" /\ ret.result = "Ok"
    /\ nodes # <<>>
    /\ Len(nodes["S"].chunks[1]) > SuperBlockWords + 1
    /\ Len(generators) = SizingRule(Len(blocks["S"]) \div Len(nodes["S"].chunks))
    /\ Len(generators) = Len(nodes["S"].chunks[1])
    /\ verify(msg, generators) = "Ok"

----------------------------------------------------------------------------
(* Properties of send and decode on nodes that hold few rows.              *)

\* C15 as claimed (SpecBlock): once receive on a node built by Node::new has
\* returned Ok or LinearlyDependentChunk and the node holds no more than one
\* chunk, it holds exactly one chunk and K commitments, and its send returns
\* Ok whatever scalars are drawn.
SendReceiveLeavesOneChunk ==
    (/\ ret.op = "receive"
     /\ ret.node \in Receivers
     /\ ret.result \in {"Ok", "LinearlyDependentChunk"}
     /\ Len(nodes[ret.node].chunks) <= 1)
    => /\ Len(nodes[ret.node].chunks) = 1
       /\ Len(nodes[ret.node].commitments) = NumChunks
       /\ \A scalars \in generate_random_coeffs(Len(nodes[ret.node].chunks)) :
              send(nodes[ret.node], scalars, generators, TRUE).out = "Ok"

\* C16 as claimed (SpecForge): send returns an error on a node that holds no
\* chunk and Ok on every node that holds at least one.
SendErrIffEmpty ==
    ret.op = "send" =>
        ret.result = IF nodes[ret.node].chunks = <<>> THEN "Err" ELSE "Ok"

\* C17 as claimed (SpecForge): decode on a node that holds fewer than K rows
\* returns an error, and inverse() of its echelon returns Err.
DecodeBeforeFullErr ==
    (ret.op = "decode" /\ Len(nodes[ret.node].echelon.coefficients) < NumChunks)
    => /\ ret.result = "Err"
       /\ ~inverse(nodes[ret.node].echelon).ok

----------------------------------------------------------------------------
(* Properties of the codecs, checked under SpecCodec.                      *)

\* C18: codec round-trip: scalars_to_chunk applied to what chunk_to_scalars
\* returned for an accepted buffer returns Ok with that buffer, and
\* scalars_to_chunk_31 applied to what chunk_to_scalars_31 returned gives the
\* buffer back.
CodecRoundTrip ==
    /\ ret.op = "scalars_to_chunk" =>
          /\ ret.result = "Ok"
          /\ ret.value = blocks["buffer"]
    /\ ret.op = "scalars_to_chunk_31" => ret.value = blocks["buffer"]

\* C18 witness: the packed round-trip was made on a buffer of two super-blocks
\* and a partial third, with stripped bits set in the last word.
CodecRoundTripWitness ==
    /\ ret.op = "scalars_to_chunk" /\ ret.result = "Ok"
    /\ Len(blocks["buffer"]) > 2 * SuperBlockWords * WordBytes
    /\ blocks["buffer"][Len(blocks["buffer"])] >= 2 ^ (ByteBits - HighBits)
    /\ blocks["buffer"][WordBytes] >= 2 ^ (ByteBits - HighBits)

\* the number of scalars of n whole words: one per word and one tail-bits
\* scalar per super-block begun
PackedCount(words) ==
    words + ((words + SuperBlockWords - 1) \div SuperBlockWords)

\* C19 as claimed: chunk_to_scalars rejects every buffer whose length is not
\* a multiple of the super-block size and returns (SuperBlockWords + 1)
\* scalars per super-block for the others.
PackedAcceptsSuperBlocksOnly ==
    ret.op = "chunk_to_scalars" =>
        LET n   == Len(blocks["buffer"])
            sbb == SuperBlockWords * WordBytes
        IN  /\ n % sbb # 0 => ret.result = "Err"
            /\ ret.result = "Ok" => Len(ret.value) = (SuperBlockWords + 1) * (n \div sbb)

\* C19 amended: chunk_to_scalars returns Ok exactly for the buffers of whole
\* words, and then one scalar per word plus one per super-block begun, the
\* last super-block being allowed to be partial.
PackedAcceptsWholeWords ==
    ret.op = "chunk_to_scalars" =>
        LET n == Len(blocks["buffer"])
        IN  /\ ret.result = IF n % WordBytes = 0 THEN "Ok" ELSE "Err"
            /\ ret.result = "Ok" => Len(ret.value) = PackedCount(n \div WordBytes)

\* C19 witness: a buffer of more than one super-block that is not a whole
\* number of super-blocks was accepted.
PackedAcceptsWholeWordsWitness ==
    /\ ret.op = "chunk_to_scalars" /\ ret.result = "Ok"
    /\ Len(blocks["buffer"]) > SuperBlockWords * WordBytes
    /\ Len(blocks["buffer"]) % (SuperBlockWords * WordBytes) # 0

----------------------------------------------------------------------------
(* Properties of the Committer, checked under SpecCommit.                  *)

\* C21: in every step, commit on m scalars returns an error exactly when m
\* exceeds the number N of generators, and otherwise, m = 0 included, Ok of
\* sum_{i<m} scalars[i] * G_i over the first m generators; no step changes
\* the generator vector.
CommitTotalUpToN ==
    [][/\ generators' = generators
       /\ ret'.op = "commit" =>
             LET m == Len(ret'.arg)
             IN  /\ ret'.result = IF m > Len(generators) THEN "Err" ELSE "Ok"
                 /\ ret'.result = "Ok" =>
                       ret'.value = <<SumSeq([i \in 1..m |->
                                       Mul(ret'.arg[i], generators[i])])>>]_vars

\* C21 witness: commit returned Ok on an input exactly as long as the
\* generator vector, with a nonzero point.
CommitTotalUpToNWitness ==
    /\ ret.op = "commit" /\ ret.result = "Ok"
    /\ Len(ret.arg) = Len(generators)
    /\ Len(generators) = MaxGenerators
    /\ ret.value # <<ZERO>>

\* a * u + b * v, entry by entry
Combine(a, u, b, v) == [i \in 1..Len(u) |-> Add(Mul(a, u[i]), Mul(b, v[i]))]

\* the source node whose two chunks are u and v
SourceOf(u, v) ==
    [chunks      |-> <<u, v>>,
     commitments |-> <<commit(generators, u).v, commit(generators, v).v>>,
     echelon     |-> EschelonNewIdentity(2)]

\* C22: commitment homomorphism: for the vector u that commit accepted, every
\* vector v of the same length and all scalars a, b,
\* commit(a*u + b*v) = a*commit(u) + b*commit(v); and the Message a source
\* holding u and v builds with coefficients (a, b) verifies against the
\* commitments of u and v, which it carries unchanged.
CommitmentHomomorphism ==
    (ret.op = "commit" /\ ret.result = "Ok") =>
        LET u == ret.arg
        IN  \A v \in [1..Len(u) -> 0..ScalarMax] : \A a, b \in Scalars :
                /\ commit(generators, Combine(a, u, b, v)).ok
                /\ commit(generators, Combine(a, u, b, v)).v
                     = Add(Mul(a, ret.value[1]), Mul(b, commit(generators, v).v))
                /\ LET m == linear_comb_chunk(SourceOf(u, v), <<a, b>>)
                   IN  /\ m.data = Combine(a, u, b, v)
                       /\ m.coefficients = <<a, b>>
                       /\ m.commitments = SourceOf(u, v).commitments
                       /\ verify(m, generators) = "Ok"

\* C22 witness: commit accepted a vector of two nonzero scalars whose
\* commitment is not the identity.
CommitmentHomomorphismWitness ==
    /\ ret.op = "commit" /\ ret.result = "Ok"
    /\ Len(ret.arg) = 2
    /\ ret.arg[1] # ZERO /\ ret.arg[2] # ZERO /\ ret.arg[1] # ret.arg[2]
    /\ ret.value # <<ZERO>>

----------------------------------------------------------------------------
(* Properties of the C ABI, checked under SpecAbi.                         *)

\* C23 as claimed: decode of the C ABI returns to its caller; it returns 0
\* only when decode() of the node succeeded and the output buffer and length
\* were written; when the node is not full or decode() fails it returns -1.
AbiDecodeReportsFailure ==
    ret.op = "decode" =>
        LET node == nodes[ret.node]
        IN  /\ ret.result = "return"
            /\ ret.value = <<0>> => (decode(node).out = "Ok" /\ ret.arg.written)
            /\ (node_is_full(node) # "true" \/ decode(node).out # "Ok")
                  => ret.value = <<-1>>

\* the code the C ABI gives for a result of Node::receive
AbiCodeOf(result) ==
    CASE result = "Ok" -> 0
      [] result = "ExistingCommitmentsMismatch" -> -2
      [] result = "ExistingChunksMismatch" -> -3
      [] result = "InvalidMessage" -> -4
      [] result = "LinearlyDependentChunk" -> -5

\* C24: in every step of receive_chunk that returns: bytes that do not
\* deserialize give -1 and leave the node untouched; otherwise the code is 0
\* exactly when Node::receive accepted the Message, and each receive error
\* gives its own code, -2 to -5, with the node that receive left.
AbiReceiveCodes ==
    [][(ret'.op = "receive_chunk" /\ ret'.result = "return") =>
          LET n == ret'.node
              r == receive(nodes[n], Tamper(msg, ret'.arg.t), generators)
          IN  IF ~ret'.arg.valid
              THEN ret'.value = <<-1>> /\ nodes' = nodes
              ELSE /\ ret'.value = <<AbiCodeOf(r.result)>>
                   /\ (ret'.value = <<0>>) <=> (r.result = "Ok")
                   /\ nodes'[n] = r.node]_vars

\* C24 witness: A, holding one chunk, has just returned -4, and the codes
\* 0, -1, -2 and -3 are each returned by some node for the Message in flight,
\* delivered in some way.
AbiReceiveCodesWitness ==
    /\ ret.op = "receive_chunk" /\ ret.node = "A" /\ ret.result = "return"
    /\ ret.value = <<-4>>
    /\ Len(nodes["A"].chunks) = 1
    /\ \A code \in {0, -1, -2, -3} :
          \E n \in NodeIds : \E valid \in BOOLEAN : \E t \in TamperKinds \cup {"none"} :
              LET r == receive_chunk(nodes[n], Wire(valid, Tamper(msg, t)), generators)
              IN  ~r.abort /\ r.code = code

----------------------------------------------------------------------------
(* Further properties of the Eschelon, checked under SpecEch.              *)

\* C25: in every state, with r <= K rows held, compound_scalars does not
\* panic and returns, for every vector s of scalars, the vector of length K
\* whose entry j is sum_{i<r} s[i] * coefficients[i][j], all zero when no row
\* is held; and every step of compound_scalars returns and leaves the
\* Eschelon as it was.
CompoundScalarsIsProduct ==
    /\ [](/\ Len(ech.coefficients) <= EchSize
          /\ \A s \in generate_random_coeffs(EchSize) :
                LET v == compound_scalars(ech, s)
                IN  /\ ~compound_scalars_panics(ech, s)
                    /\ Len(v) = EchSize
                    /\ \A j \in 1..EchSize :
                          v[j] = SumSeq([i \in 1..Len(ech.coefficients) |->
                                           Mul(s[i], ech.coefficients[i][j])])
                    /\ ech.coefficients = <<>> => v = [j \in 1..EchSize |-> ZERO])
    /\ [][ret'.op = "compound_scalars" => (ech' = ech /\ ret'.result = "Ok")]_vars

\* C25 witness: compound_scalars was called on two accepted rows that differ
\* from the rows of the echelon form, and a draw gives a result that is
\* neither zero nor one of the rows.
CompoundScalarsIsProductWitness ==
    /\ ret.op = "compound_scalars" /\ ret.result = "Ok"
    /\ Len(ech.coefficients) = 2
    /\ ech.coefficients # ech.eschelon
    /\ \E s \in generate_random_coeffs(EchSize) :
          LET v == compound_scalars(ech, s)
          IN  ~AllZero(v) /\ v # ech.coefficients[1] /\ v # ech.coefficients[2]

----------------------------------------------------------------------------
(* Further properties of the construction of a source (SpecSource).        *)

\* C26 as claimed: new_source returns to its caller, and returns Err for a
\* block whose length is not a multiple of K, for chunks whose length the
\* codec rejects, and for chunks of more scalars than the committer has
\* generators.
NewSourceReportsErr ==
    ret.op = "new_source" =>
        LET block       == blocks["S"]
            chunk_bytes == Len(block) \div ret.arg
            rejected    ==
                \/ Len(block) % ret.arg # 0
                \/ chunk_bytes % WordBytes # 0
                \/ PackedCount(chunk_bytes \div WordBytes) > Len(generators)
        IN  /\ ret.result \in {"Ok", "Err"}
            /\ rejected => ret.result = "Err"

----------------------------------------------------------------------------
(* Invariants of the Node and of its Eschelon.                             *)

\* the sources whose commitments node n holds
SourcesOf(n) == {s \in DOMAIN blocks : nodes[s].commitments = nodes[n].commitments}

\* C27: node/echelon mirror: every node holds as many chunks as its echelon
\* holds coefficient rows and echelon rows, and the i-th chunk is the linear
\* combination of the chunks of the source given by the i-th coefficient row.
NodeMirrorsEchelon ==
    \A n \in NodeIds :
        LET node == nodes[n]
        IN  /\ Len(node.chunks) = Len(node.echelon.coefficients)
            /\ Len(node.chunks) = Len(node.echelon.eschelon)
            /\ node.chunks # <<>> =>
                  \E s \in SourcesOf(n) :
                      \A i \in 1..Len(node.chunks) :
                          node.chunks[i]
                            = LinComb(node.echelon.coefficients[i], SourceChunks(s),
                                      Len(SourceChunks(s)[1]))

\* C28 as claimed (SpecForge): every node, built with num_chunks = K, holds
\* no commitments or exactly K of them, and every coefficient row it stores
\* has length K, whatever verifying messages it was handed.
CommitmentLengthIsK ==
    \A n \in NodeIds :
        /\ Len(nodes[n].commitments) \in {0, NumChunks}
        /\ \A i \in 1..Len(nodes[n].echelon.coefficients) :
              Len(nodes[n].echelon.coefficients[i]) = NumChunks

\* the column of the first nonzero entry of a row, 0 for an all-zero row
PivotColumn(row) ==
    IF \A x \in 1..Len(row) : row[x] = ZERO THEN 0
    ELSE CHOOSE k \in 1..Len(row) :
            row[k] # ZERO /\ \A m \in 1..Len(row) : row[m] # ZERO => k <= m

\* C29: echelon shape (SpecEch): after any sequence of add_row calls no row
\* of the echelon matrix is all zero, there are at most K of them, and the
\* pivot column of each row is strictly greater than that of the row before.
EchelonShape ==
    /\ Len(ech.eschelon) <= EchSize
    /\ \A i \in 1..Len(ech.eschelon) :
          /\ Len(ech.eschelon[i]) = EchSize
          /\ PivotColumn(ech.eschelon[i]) # 0
          /\ i > 1 => PivotColumn(ech.eschelon[i]) > PivotColumn(ech.eschelon[i - 1])

\* C29 witness: three rows were accepted, the last with its first entry in a
\* column before that of the first, and it sits in the echelon matrix before
\* the row that arrived first.
EchelonShapeWitness ==
    /\ ret.op = "add_row" /\ ret.result = "true"
    /\ Len(ech.coefficients) = EchSize
    /\ PivotColumn(ech.coefficients[3]) < PivotColumn(ech.coefficients[1])
    /\ PivotColumn(ech.coefficients[2]) = PivotColumn(ech.coefficients[1])
    /\ ech.eschelon[1] = ech.coefficients[3]

\* C30: full rank (SpecEch): whenever K rows are held the echelon matrix is
\* K x K, the pivot of row i is in column i, every diagonal entry is nonzero,
\* and inverse() returns Ok, having inverted nonzero pivots only.
FullRankDiagonal ==
    Len(ech.coefficients) = EchSize =>
        /\ Len(ech.eschelon) = EchSize
        /\ \A i \in 1..EchSize :
              /\ Len(ech.eschelon[i]) = EchSize
              /\ PivotColumn(ech.eschelon[i]) = i
              /\ ech.eschelon[i][i] # ZERO
              /\ Mul(ech.eschelon[i][i], Invert(ech.eschelon[i][i])) = ONE
        /\ inverse(ech).ok
        /\ ret.op = "inverse" => ret.result = "Ok"

\* C30 witness: inverse() returned Ok on K rows whose echelon form has a
\* diagonal entry other than one and an entry above the diagonal.
FullRankDiagonalWitness ==
    /\ ret.op = "inverse" /\ ret.result = "Ok"
    /\ Len(ech.coefficients) = EchSize
    /\ \E i \in 1..EchSize : ech.eschelon[i][i] # ONE
    /\ \E i \in 1..EchSize : \E j \in (i + 1)..EchSize : ech.eschelon[i][j] # ZERO

----------------------------------------------------------------------------
(* Capacity and frame properties of the Node.                              *)

----------------------------------------------------------------------------
(* Frame properties of the Eschelon, checked under SpecEch.                *)

\* C32: pending identity tail: with r accepted rows, transform has exactly K
\* rows of length K, every row after the r-th is the identity row of its
\* index, and every row up to the r-th is zero in the columns after the r-th.
PendingIdentityTail ==
    LET r == Len(ech.coefficients)
    IN  /\ Len(ech.transform) = EchSize
        /\ \A i \in 1..EchSize : Len(ech.transform[i]) = EchSize
        /\ \A i \in (r + 1)..EchSize : ech.transform[i] = IdentityRow(EchSize, i)
        /\ \A i \in 1..r : \A j \in (r + 1)..EchSize : ech.transform[i][j] = ZERO

\* C32 witness: the second row was accepted after being reduced by the first,
\* its transform row being a combination of two identity rows, with one
\* identity row still pending.
PendingIdentityTailWitness ==
    /\ ret.op = "add_row" /\ ret.result = "true"
    /\ Len(ech.coefficients) = 2
    /\ ech.eschelon[2] # ech.coefficients[2]
    /\ ech.transform[2][1] # ZERO /\ ech.transform[2][2] # ZERO
    /\ ech.transform[3] = IdentityRow(EchSize, 3)

----------------------------------------------------------------------------
(* Frame properties of the Node, checked under Spec.                       *)

\* C33: coefficients is append-only: in every step, a receive that returns Ok
\* appends the coefficient row of the message, as it came, as the last row of
\* coefficients and its data as the last chunk, all earlier rows and chunks
\* staying as and where they were; every other step leaves both unchanged.
CoefficientsAppendOnly ==
    [][\A n \in NodeIds :
          LET accepted == ret'.op = "receive" /\ ret'.node = n /\ ret'.result = "Ok"
          IN  IF accepted
              THEN /\ nodes'[n].echelon.coefficients
                        = Append(nodes[n].echelon.coefficients, msg.coefficients)
                   /\ nodes'[n].chunks = Append(nodes[n].chunks, msg.data)
              ELSE /\ nodes'[n].echelon.coefficients = nodes[n].echelon.coefficients
                   /\ nodes'[n].chunks = nodes[n].chunks]_vars

\* C33 witness: A accepted a second row that was reduced by the first, and B
\* accepted a second row that was put before the first in its echelon
\* matrix; each kept its rows in the order of arrival.
CoefficientsAppendOnlyWitness ==
    /\ ret.op = "receive" /\ ret.result = "Ok"
    /\ Len(nodes["A"].chunks) = 2 /\ Len(nodes["B"].chunks) = 2
    /\ nodes["A"].echelon.eschelon[2] # nodes["A"].echelon.coefficients[2]
    /\ nodes["A"].echelon.eschelon[1] = nodes["A"].echelon.coefficients[1]
    /\ nodes["B"].echelon.eschelon[1] = nodes["B"].echelon.coefficients[2]
    /\ nodes["B"].echelon.eschelon[2] = nodes["B"].echelon.coefficients[1]

\* C34: only receive mutates a node (SpecForge): every step of send, decode
\* or is_full, whatever it returns, leaves the chunks, the commitments and the
\* three matrices of every node as they were, and the generators too; so
\* decode and is_full return after the step what they returned before it.
OnlyReceiveMutates ==
    [][ret'.op \in {"send", "decode", "is_full"} =>
          /\ nodes' = nodes
          /\ generators' = generators
          /\ \A n \in NodeIds :
                /\ decode(nodes'[n]) = decode(nodes[n])
                /\ node_is_full(nodes'[n]) = node_is_full(nodes[n])]_vars

\* C34 witness: decode has returned Ok on A, which holds K re-coded chunks
\* and whose send returns Ok too.
OnlyReceiveMutatesWitness ==
    /\ ret.op = "decode" /\ ret.node = "A" /\ ret.result = "Ok"
    /\ Len(nodes["A"].chunks) = NumChunks
    /\ nodes["A"].echelon.coefficients # IdentityMatrix(NumChunks)
    /\ \E scalars \in generate_random_coeffs(NumChunks) :
          send(nodes["A"], scalars, generators, TRUE).out = "Ok"

----------------------------------------------------------------------------
(* Properties of scalars_to_chunk, checked under SpecUnpack.               *)

\* C35: scalars_to_chunk returns Ok of no bytes for no scalars, an error
\* exactly when the number of scalars leaves a last group of one scalar (the
\* count is 1 modulo the group size), and otherwise Ok with one word of bytes
\* for each scalar that is not the tail scalar of its group.
UnpackRejectsLoneTail ==
    ret.op = "scalars_to_chunk" =>
        LET n      == Len(msg.data)
            group  == SuperBlockWords + 1
            groups == (n + group - 1) \div group
        IN  /\ ret.result = IF n % group = 1 THEN "Err" ELSE "Ok"
            /\ n = 0 => (ret.result = "Ok" /\ ret.value = <<>>)
            /\ ret.result = "Ok" => Len(ret.value) = WordBytes * (n - groups)

\* C35 witness: an error was returned for two full groups followed by a lone
\* scalar.
UnpackRejectsLoneTailWitness ==
    /\ ret.op = "scalars_to_chunk" /\ ret.result = "Err"
    /\ Len(msg.data) = 2 * (SuperBlockWords + 1) + 1

----------------------------------------------------------------------------
(* Progress of the dissemination, checked under Spec.                      *)

\* node a holds a coefficient row outside the row-span of the rows of node b
HoldsInnovative(a, b) ==
    \E i \in 1..Len(nodes[a].echelon.coefficients) :
        ~InSpan(nodes[a].echelon.coefficients[i], nodes[b].echelon.coefficients)

FullRows(ns) == {i \in DOMAIN ns : Len(ns[i].echelon.coefficients) = NumChunks}

RoundKeepsCount ==
    /\ ret.result # "panic"
    /\ net.full_nodes = Cardinality(FullRows(nodes))

\* the deliveries of the round just made that returned r
RoundResults(r) == {k \in DOMAIN ret.value : ret.value[k] = r}

\* C37 under SpecRound: a round adds to wasted_bandwdidth one for each
\* LinearlyDependentChunk delivery and changes only the nodes a delivery
\* returned Ok for, one row each; it adds to full_nodes the nodes that became
\* full; and each of its messages is one that send returns on a node as it
\* was before the round
RoundAccounting ==
    [][(ret'.op = "round" /\ ret'.result = "Ok") =>
        /\ net'.timestamp = net.timestamp + 1
        /\ net'.wasted_bandwdidth = net.wasted_bandwdidth
              + Cardinality({k \in DOMAIN ret'.value :
                                ret'.value[k] = "LinearlyDependentChunk"})
        /\ \A j \in DOMAIN nodes :
              LET oks == {k \in DOMAIN ret'.value :
                             /\ ret'.value[k] = "Ok"
                             /\ net'.round_destinations[k] = j}
              IN  /\ oks = {} => nodes'[j] = nodes[j]
                  /\ Len(nodes'[j].chunks) = Len(nodes[j].chunks) + Cardinality(oks)
        /\ FullRows(nodes) \subseteq FullRows(nodes')
        /\ net'.full_nodes = net.full_nodes
              + Cardinality(FullRows(nodes') \ FullRows(nodes))
        /\ \A k \in DOMAIN net'.round_messages :
              \E i \in DOMAIN nodes :
                \E sc \in generate_random_coeffs(Len(nodes[i].chunks)) :
                    LET r == send(nodes[i], sc, generators, DebugAssertions)
                    IN  r.out = "Ok" /\ r.msg = net'.round_messages[k]
    ]_vars

\* a round in which a node other than the source became full, a delivery was
\* linearly dependent, and a node that had received in an earlier round sent
RoundKeepsCountWitness ==
    /\ ret.op = "round" /\ ret.result = "Ok"
    /\ net.timestamp >= 2
    /\ net.full_nodes >= 2
    /\ RoundResults("LinearlyDependentChunk") # {}
    /\ RoundResults("Ok") # {}
    /\ \E i \in DOMAIN nodes : i # 1 /\ net.sent_message[i]

====
